---- MODULE Spec2Model ----
(***************************************************************************)
(* A model of the in-memory OLAP cube engine (src/src/engine) and of the   *)
(* invalidation hook of the ETL side (src/src/cube/manager.ts).            *)
(*                                                                         *)
(* JavaScript values are modelled as follows.                              *)
(*   - a scalar (number | string | null | undefined) is a record           *)
(*     [t, n, s]: its type tag, its numeric value, its text;               *)
(*   - an object is a function on the names of the fields it has, so       *)
(*     `x.f ?? d` is a test of "f" \in DOMAIN x;                            *)
(*   - an array and an insertion-ordered Map are sequences;                *)
(*   - a template-literal key `${a}.${b}:${c}` is the text it builds,      *)
(*     a value in it in the string form the template gives it; the         *)
(*     cache key alone is kept as the object stableStringify encodes.      *)
(***************************************************************************)
EXTENDS Integers, Sequences, FiniteSets, TLC

VARIABLES
    cubes,          \* engine CubeManager.cubes: registered instances, in insertion order
    cache,          \* engine CubeManager.cache: LRU entries, least recently used first
    cacheStats,     \* engine CubeManager.cacheStats: [hits, misses]
    now,            \* the clock the cache reads (milliseconds)
    invalidations,  \* cube/manager.ts CubeManager.invalidations
    last,           \* the most recent call and what it returned
    used,           \* history: for each cache key, the call that last read or wrote it
    accumulatorOf,   \* one AggregationAccumulator of each AggregationType
    inputs,         \* history: the values given to add() of each of them, in order
    files,          \* the parsed records of the CSV file of each source
    store,          \* InMemoryStore: [facts, dimensions]
    watermarks,     \* watermarks.json: the last watermark saved for each source
    listeners,      \* cube/manager.ts CubeManager.listeners
    notified,       \* history: the calls made to the listeners, [listener, event]
    faults,         \* the environment: the step of processSource that throws, per source
    etlRun          \* the most recent ETLOrchestrator.run and what it produced

accVars == <<accumulatorOf, inputs>>
etlVars == <<files, store, watermarks, listeners, notified, faults, etlRun>>
vars == <<cubes, cache, cacheStats, now, invalidations, last, used, accVars, etlVars>>

----------------------------------------------------------------------------
(* Bounds of the model *)

MaxFacts == 2       \* fact rows of a cube drawn for the scan specification
MaxOps == 5         \* calls made on one engine instance
MaxCalls == 4       \* calls made in one behaviour of the cache specification
MaxInputs == 3      \* values added to one accumulator
MaxRuns == 2        \* ETL runs on one store
MaxTime == 3        \* the clock stops advancing here
CacheMax == 2       \* options.cache.max of the modelled instance
TtlMs == 2          \* options.cache.ttlMs of the modelled instance

----------------------------------------------------------------------------
(* Scalars *)

Num(n) == [t |-> "number", n |-> n, s |-> ""]
Str(s) == [t |-> "string", n |-> 0, s |-> s]
Undefined == [t |-> "undefined", n |-> 0, s |-> ""]
Null == [t |-> "null", n |-> 0, s |-> ""]

IsNumber(v) == v.t = "number"

\* The decimal text of the numbers the model uses as dimension and metric values.
DecimalText == <<"0", "1", "2", "3", "4", "5", "6", "7", "8", "9">>

\* String(value), `${value}`
StringOf(v) ==
    IF IsNumber(v) THEN (IF v.n < 0 THEN "-" \o DecimalText[1 - v.n] ELSE DecimalText[v.n + 1])
    ELSE IF v.t = "string" THEN v.s
    ELSE v.t

----------------------------------------------------------------------------
(* Sequence helpers *)

RECURSIVE Flatten(_)
Flatten(ss) == IF ss = <<>> THEN <<>> ELSE Head(ss) \o Flatten(Tail(ss))

\* Array.prototype.map with the index
MapSeq(Op(_, _), s) == [i \in 1..Len(s) |-> Op(s[i], i)]

\* The first index whose element satisfies Test, 0 when there is none.
FindIndex(Test(_), s) ==
    IF \E i \in 1..Len(s) : Test(s[i])
    THEN CHOOSE i \in 1..Len(s) : Test(s[i]) /\ \A j \in 1..(i - 1) : ~Test(s[j])
    ELSE 0

\* Array.prototype.join on texts
RECURSIVE Join(_, _)
Join(parts, separator) ==
    IF parts = <<>> THEN ""
    ELSE IF Len(parts) = 1 THEN parts[1]
    ELSE parts[1] \o separator \o Join(Tail(parts), separator)

RemoveAt(s, i) == SubSeq(s, 1, i - 1) \o SubSeq(s, i + 1, Len(s))

Range(s) == {s[i] : i \in 1..Len(s)}

----------------------------------------------------------------------------
(* Accumulators: engine/aggregations.ts *)

AggregationType == {"SUM", "COUNT", "AVG", "MIN", "MAX", "DISTINCT"}

\* One record for the six classes: value (SUM, COUNT, MIN, MAX; sum of AVG),
\* count (AVG), defined (MIN, MAX: value is not undefined), seen (DISTINCT).
createAccumulator(type) ==
    [type |-> type, value |-> 0, count |-> 0, defined |-> FALSE, seen |-> {}]

\* MinAccumulator and MaxAccumulator with a value that starts at 0 instead of
\* undefined.
addFromZero(acc, v) ==
    CASE acc.type = "SUM" ->
            IF IsNumber(v) THEN [acc EXCEPT !.value = @ + v.n] ELSE acc
      [] acc.type = "COUNT" ->
            IF v # Undefined /\ v # Null THEN [acc EXCEPT !.value = @ + 1] ELSE acc
      [] acc.type = "AVG" ->
            IF IsNumber(v) THEN [acc EXCEPT !.value = @ + v.n, !.count = @ + 1] ELSE acc
      [] acc.type = "MIN" ->
            IF IsNumber(v) /\ v.n < acc.value THEN [acc EXCEPT !.value = v.n, !.defined = TRUE]
            ELSE acc
      [] acc.type = "MAX" ->
            IF IsNumber(v) /\ v.n > acc.value THEN [acc EXCEPT !.value = v.n, !.defined = TRUE]
            ELSE acc
      [] acc.type = "DISTINCT" ->
            IF v = Undefined \/ v = Null THEN acc
            ELSE [acc EXCEPT !.seen = @ \cup {StringOf(v)}]

add(acc, v) ==
    CASE acc.type = "SUM" ->
            IF IsNumber(v) THEN [acc EXCEPT !.value = @ + v.n] ELSE acc
      [] acc.type = "COUNT" ->
            IF v # Undefined /\ v # Null THEN [acc EXCEPT !.value = @ + 1] ELSE acc
      [] acc.type = "AVG" ->
            IF IsNumber(v) THEN [acc EXCEPT !.value = @ + v.n, !.count = @ + 1] ELSE acc
      [] acc.type = "MIN" ->
            IF ~IsNumber(v) THEN acc
            ELSE IF ~acc.defined \/ v.n < acc.value
                 THEN [acc EXCEPT !.value = v.n, !.defined = TRUE]
                 ELSE acc
      [] acc.type = "MAX" ->
            IF ~IsNumber(v) THEN acc
            ELSE IF ~acc.defined \/ v.n > acc.value
                 THEN [acc EXCEPT !.value = v.n, !.defined = TRUE]
                 ELSE acc
      [] acc.type = "DISTINCT" ->
            IF v = Undefined \/ v = Null THEN acc
            ELSE [acc EXCEPT !.seen = @ \cup {StringOf(v)}]

RECURSIVE Gcd(_, _)
Gcd(a, b) == IF b = 0 THEN a ELSE Gcd(b, a % b)

\* The number sum / count (count > 0): the integer when count divides sum, the
\* fraction in lowest terms otherwise.
Quotient(sum, count) ==
    LET magnitude == IF sum < 0 THEN -sum ELSE sum
        g == Gcd(magnitude, count)
    IN  IF g = count THEN (IF sum < 0 THEN -(magnitude \div count) ELSE magnitude \div count)
        ELSE [numerator |-> (IF sum < 0 THEN -(magnitude \div g) ELSE magnitude \div g),
              denominator |-> count \div g]

finalize(acc) ==
    CASE acc.type \in {"SUM", "COUNT"} -> acc.value
      [] acc.type = "AVG" -> IF acc.count = 0 THEN 0 ELSE Quotient(acc.value, acc.count)
      [] acc.type \in {"MIN", "MAX"} -> IF acc.defined THEN acc.value ELSE 0
      [] acc.type = "DISTINCT" -> Cardinality(acc.seen)

RECURSIVE addAll(_, _)
addAll(acc, values) ==
    IF values = <<>> THEN acc ELSE addAll(add(acc, Head(values)), Tail(values))

----------------------------------------------------------------------------
(* Cube definitions and fact rows: engine/cube-manager.ts *)

\* row.dimensions[dimension]?.[level]
DimensionValue(row, dimension, level) ==
    IF dimension \in DOMAIN row.dimensions
    THEN IF level \in DOMAIN row.dimensions[dimension]
         THEN row.dimensions[dimension][level]
         ELSE Undefined
    ELSE Undefined

\* row.metrics[measure.valueField]
extractMeasureValue(row, measure) ==
    IF measure.valueField \in DOMAIN row.metrics
    THEN row.metrics[measure.valueField]
    ELSE Undefined

\* `${dimension}.${level}`
storeKey(dimension, level) == dimension \o "." \o level

\* new Map(items.map(x => [x.name, x])): a later item of the same name wins.
NameMap(items) ==
    [n \in {items[i].name : i \in 1..Len(items)} |->
        items[CHOOSE i \in 1..Len(items) :
                /\ items[i].name = n
                /\ \A j \in (i + 1)..Len(items) : items[j].name # n]]

\* measureDefs.reduce(...): one accumulator per measure name.
createMeasureAccumulatorSet(measureDefs) ==
    [n \in DOMAIN NameMap(measureDefs) |-> createAccumulator(NameMap(measureDefs)[n].aggregation)]

\* for (const measure of measures) accumulators[measure.name].add(row.metrics[...])
RECURSIVE addMeasures(_, _, _)
addMeasures(accumulators, measureDefs, row) ==
    IF measureDefs = <<>> THEN accumulators
    ELSE LET m == Head(measureDefs) IN
         addMeasures([accumulators EXCEPT ![m.name] = add(@, extractMeasureValue(row, m))],
                     Tail(measureDefs), row)

\* The (row, dimension, level) triples in the order of the three nested loops.
materializeVisits(definition) ==
    Flatten([r \in 1..Len(definition.rows) |->
        Flatten([d \in 1..Len(definition.dimensions) |->
            [l \in 1..Len(definition.dimensions[d].hierarchy) |->
                [row |-> definition.rows[r],
                 dimension |-> definition.dimensions[d].name,
                 level |-> definition.dimensions[d].hierarchy[l]]]])])

\* workingStore is the Map kept as a sequence of [key, entries], entries a Map
\* kept as a sequence of [value, accumulators].
\* levelStore after `if (!levelStore.has(value)) levelStore.set(value, ...)` and
\* the loop that adds the row's metric to every measure's accumulator.
materializeInto(definition, levelStore, value, row) ==
    LET HasValue(e) == e.value = value
        v == FindIndex(HasValue, levelStore)
    IN  IF v = 0
        THEN Append(levelStore,
                    [value |-> value,
                     accumulators |->
                        addMeasures(createMeasureAccumulatorSet(definition.measures),
                                    definition.measures, row)])
        ELSE [levelStore EXCEPT ![v].accumulators = addMeasures(@, definition.measures, row)]

materializeAt(definition, workingStore, key, value, row) ==
    LET HasKey(e) == e.key = key
        k == FindIndex(HasKey, workingStore)
    IN  IF value = Undefined THEN workingStore
        ELSE IF k = 0
        THEN Append(workingStore,
                    [key |-> key, entries |-> materializeInto(definition, <<>>, value, row)])
        ELSE [workingStore EXCEPT ![k].entries = materializeInto(definition, @, value, row)]

\* One pass of the innermost loop body.
materializeStep(definition, workingStore, visit) ==
    materializeAt(definition, workingStore,
                  storeKey(visit.dimension, visit.level),
                  DimensionValue(visit.row, visit.dimension, visit.level),
                  visit.row)

RECURSIVE materializeLoop(_, _, _)
materializeLoop(definition, workingStore, visits) ==
    IF visits = <<>> THEN workingStore
    ELSE materializeLoop(definition,
                         materializeStep(definition, workingStore, Head(visits)),
                         Tail(visits))

\* finalStore: every accumulator finalized; measures is Record<name, number>.
materializeAggregates(definition) ==
    LET workingStore == materializeLoop(definition, <<>>, materializeVisits(definition))
        Resolve(entry, i) ==
            [value |-> entry.value,
             measures |-> [n \in DOMAIN entry.accumulators |-> finalize(entry.accumulators[n])]]
        FinalLevel(e, i) == [key |-> e.key, entries |-> MapSeq(Resolve, e.entries)]
    IN  MapSeq(FinalLevel, workingStore)

----------------------------------------------------------------------------
(* The registry *)

cubesHas(name) == \E i \in 1..Len(cubes) : cubes[i].definition.name = name
cubesGet(name) == cubes[CHOOSE i \in 1..Len(cubes) : cubes[i].definition.name = name]

listCubes == [i \in 1..Len(cubes) |-> cubes[i].definition.name]

CubeInstance(definition) ==
    [definition |-> definition,
     dimensionMap |-> NameMap(definition.dimensions),
     measureMap |-> NameMap(definition.measures),
     aggregateStore |-> materializeAggregates(definition)]

----------------------------------------------------------------------------
(* The textual helper: parseLightweightMdx *)

\* Number(token): [nan, n]. The text of a number the model uses parses to it,
\* the empty text to 0, any other text to NaN.
ToNumber(v) ==
    IF IsNumber(v) THEN [nan |-> FALSE, n |-> v.n]
    ELSE IF v.t = "string" /\ v.s = "" THEN [nan |-> FALSE, n |-> 0]
    ELSE IF v.t = "string" /\ \E i \in 1..Len(DecimalText) : DecimalText[i] = v.s
         THEN [nan |-> FALSE, n |-> (CHOOSE i \in 1..Len(DecimalText) : DecimalText[i] = v.s) - 1]
    ELSE IF v.t = "null" THEN [nan |-> FALSE, n |-> 0]
    ELSE [nan |-> TRUE, n |-> 0]

parseScalarToken(token) ==
    IF ToNumber(Str(token)).nan THEN Str(token) ELSE Num(ToNumber(Str(token)).n)

\* token.split('.') destructured into [dimension, level]; a token is given as the
\* sequence of its dot-separated parts.
SplitPair(parts) ==
    IF Len(parts) >= 2 THEN [dimension |-> parts[1], level |-> parts[2]]
    ELSE [dimension |-> parts[1]]

parseAxisList(tokens) == [i \in 1..Len(tokens) |-> SplitPair(tokens[i])]

\* The mdx string is given as the sequence of its non-empty `;` fragments, each a
\* record of its keyword (upper-cased) and of the tokens the clause's own split
\* or regular expression yields; an absent token is the empty text "".
\*   MEASURES names | ROWS axes | COLUMNS axes | SLICE lhs rhs |
\*   DICE lhs items (matched: BOOLEAN) | FILTER lhs op rhs (matched) |
\*   DRILL dimension fromLevel toLevel path | ROLLUP dimension level
mdxClauseFails(c) ==
    CASE c.keyword = "SLICE" -> c.lhs = <<>> \/ c.rhs = ""
      [] c.keyword = "DICE" -> ~c.matched
      [] c.keyword = "FILTER" -> ~c.matched
      [] c.keyword = "DRILL" -> c.dimension = "" \/ c.fromLevel = "" \/ c.toLevel = ""
      [] OTHER -> FALSE

operatorMap(op) ==
    CASE op = "=" -> "eq" [] op = "!=" -> "neq" [] op = ">" -> "gt"
      [] op = ">=" -> "gte" [] op = "<" -> "lt" [] op = "<=" -> "lte"

PartialGet(partial, f) == IF f \in DOMAIN partial THEN partial[f] ELSE <<>>

mdxApplyClause(partial, c) ==
    CASE c.keyword = "MEASURES" -> ("measures" :> c.names) @@ partial
      [] c.keyword = "ROWS" -> ("rows" :> parseAxisList(c.axes)) @@ partial
      [] c.keyword = "COLUMNS" -> ("columns" :> parseAxisList(c.axes)) @@ partial
      [] c.keyword = "SLICE" ->
            ("slices" :> Append(PartialGet(partial, "slices"),
                ("operator" :> "eq") @@ ("value" :> parseScalarToken(c.rhs)) @@ SplitPair(c.lhs)))
            @@ partial
      [] c.keyword = "DICE" ->
            ("dices" :> Append(PartialGet(partial, "dices"),
                ("operator" :> "in")
                @@ ("value" :> [t |-> "array",
                                items |-> [i \in 1..Len(c.items) |-> parseScalarToken(c.items[i])]])
                @@ SplitPair(c.lhs)))
            @@ partial
      [] c.keyword = "FILTER" ->
            ("filters" :> Append(PartialGet(partial, "filters"),
                ("operator" :> operatorMap(c.op)) @@ ("value" :> parseScalarToken(c.rhs))
                @@ SplitPair(c.lhs)))
            @@ partial
      [] c.keyword = "DRILL" ->
            ("drill" :> [dimension |-> c.dimension, fromLevel |-> c.fromLevel,
                         toLevel |-> c.toLevel,
                         path |-> [i \in 1..Len(c.path) |-> Str(c.path[i])]])
            @@ partial
      [] c.keyword = "ROLLUP" ->
            ("rollup" :> [dimension |-> c.dimension, level |-> c.level]) @@ partial
      [] OTHER -> partial

RECURSIVE mdxLoop(_, _)
mdxLoop(partial, fragments) ==
    IF fragments = <<>> THEN [error |-> FALSE, partial |-> partial]
    ELSE IF mdxClauseFails(Head(fragments)) THEN [error |-> TRUE, partial |-> partial]
    ELSE mdxLoop(mdxApplyClause(partial, Head(fragments)), Tail(fragments))

\* The empty object: a function with no field.
EmptyObject == [f \in {} |-> <<>>]

parseLightweightMdx(payload) ==
    IF "mdx" \notin DOMAIN payload \/ payload.mdx = <<>>
    THEN [error |-> FALSE, partial |-> EmptyObject]
    ELSE mdxLoop(EmptyObject, payload.mdx)

\* A merge in which the mdx value wins: base.f ?? override.f.
mergeQueryPayloadMdxFirst(base, override) ==
    LET measures == IF "measures" \in DOMAIN base THEN base.measures
                    ELSE IF "measures" \in DOMAIN override THEN override.measures
                    ELSE <<>>
    IN  ("measures" :> measures) @@ base @@ override

\* override.f ?? base.f for the ten fields the merge names, `measures` falling
\* back to []; every other field comes from {...base, ...override}.
mergeQueryPayload(base, override) ==
    LET Coalesced == {"rows", "columns", "slices", "dices", "filters", "drill",
                      "rollup", "pivot", "includeFlattened"}
        Present == {f \in Coalesced : f \in DOMAIN override \/ f \in DOMAIN base}
        named == [f \in Present |-> IF f \in DOMAIN override THEN override[f] ELSE base[f]]
        measures == IF "measures" \in DOMAIN override THEN override.measures
                    ELSE IF "measures" \in DOMAIN base THEN base.measures
                    ELSE <<>>
    IN  ("measures" :> measures) @@ named @@ override @@ base

----------------------------------------------------------------------------
(* Query normalisation: normalizeQuery, resolveAxis *)

IndexOf(s, x) == LET Is(e) == e = x IN FindIndex(Is, s) - 1     \* Array.indexOf
Includes(s, x) == \E i \in 1..Len(s) : s[i] = x                  \* Array.includes

\* A resolveAxis that gives an axis without a level the first level of the hierarchy.
resolveAxisCoarsest(axis, query, cube) ==
    IF axis.dimension \notin DOMAIN cube.dimensionMap THEN [error |-> TRUE]
    ELSE [error |-> FALSE,
          axis |-> ("level" :> IF "level" \in DOMAIN axis THEN axis.level
                               ELSE cube.dimensionMap[axis.dimension].hierarchy[1]) @@ axis]

\* A resolveAxis that applies the rollup after the drill.
resolveAxisRollupLast(axis, query, cube) ==
    IF axis.dimension \notin DOMAIN cube.dimensionMap THEN [error |-> TRUE]
    ELSE
    LET hierarchy == cube.dimensionMap[axis.dimension].hierarchy
        level0 == IF "level" \in DOMAIN axis THEN axis.level ELSE hierarchy[Len(hierarchy)]
        rollupApplies == "rollup" \in DOMAIN query /\ query.rollup.dimension = axis.dimension
        drillApplies == "drill" \in DOMAIN query /\ query.drill.dimension = axis.dimension
        level1 == IF drillApplies THEN query.drill.toLevel ELSE level0
        level == IF rollupApplies /\ IndexOf(hierarchy, level1) > IndexOf(hierarchy, query.rollup.level)
                 THEN query.rollup.level ELSE level1
    IN  IF ~Includes(hierarchy, level0) THEN [error |-> TRUE]
        ELSE IF rollupApplies /\ ~Includes(hierarchy, query.rollup.level) THEN [error |-> TRUE]
        ELSE IF drillApplies /\ ~Includes(hierarchy, query.drill.toLevel) THEN [error |-> TRUE]
        ELSE [error |-> FALSE, axis |-> ("level" :> level) @@ axis]

resolveAxis(axis, query, cube) ==
    IF axis.dimension \notin DOMAIN cube.dimensionMap THEN [error |-> TRUE]
    ELSE
    LET dimension == cube.dimensionMap[axis.dimension]
        hierarchy == dimension.hierarchy
        noLevel == "level" \notin DOMAIN axis /\ hierarchy = <<>>
        level0 == IF "level" \in DOMAIN axis THEN axis.level ELSE hierarchy[Len(hierarchy)]
        rollupApplies == "rollup" \in DOMAIN query /\ query.rollup.dimension = axis.dimension
        rollupIndex == IndexOf(hierarchy, query.rollup.level)
        levelIndex == IndexOf(hierarchy, level0)
        level1 == IF rollupApplies /\ levelIndex > rollupIndex THEN query.rollup.level ELSE level0
        drillApplies == "drill" \in DOMAIN query /\ query.drill.dimension = axis.dimension
        level == IF drillApplies THEN query.drill.toLevel ELSE level1
    IN  IF noLevel THEN [error |-> TRUE]
        ELSE IF ~Includes(hierarchy, level0) THEN [error |-> TRUE]
        ELSE IF rollupApplies /\ rollupIndex = -1 THEN [error |-> TRUE]
        ELSE IF drillApplies /\ ~Includes(hierarchy, query.drill.toLevel) THEN [error |-> TRUE]
        ELSE [error |-> FALSE, axis |-> ("level" :> level) @@ axis]

\* axes.map(resolveAxis): the first throw aborts the map.
collectAxes(results) ==
    IF \E i \in 1..Len(results) : results[i].error
    THEN [error |-> TRUE]
    ELSE [error |-> FALSE, axes |-> [i \in 1..Len(results) |-> results[i].axis]]

resolveAxes(axes, query, cube) ==
    collectAxes([i \in 1..Len(axes) |-> resolveAxis(axes[i], query, cube)])

defaultRows(cube) ==
    LET dimension == cube.definition.dimensions[1]
    IN  << [dimension |-> dimension.name, level |-> dimension.hierarchy[1]] >>

\* merged.pivot?.rows ?? merged.rows ?? []
AxesOf(merged, f) ==
    IF "pivot" \in DOMAIN merged /\ f \in DOMAIN merged.pivot THEN merged.pivot[f]
    ELSE IF f \in DOMAIN merged THEN merged[f]
    ELSE <<>>

ListOf(merged, f) == IF f \in DOMAIN merged THEN merged[f] ELSE <<>>

\* normalizeQuery from the resolved axes on: the default row axis, the check of
\* the measure names, the NormalizedQuery.
normalizeResolved(payload, cube, merged, resolvedRows, resolvedColumns) ==
    LET includeFlattened == IF "includeFlattened" \in DOMAIN merged
                            THEN merged.includeFlattened ELSE TRUE
        slices == ListOf(merged, "slices")
        dices == ListOf(merged, "dices")
        filters == ListOf(merged, "filters")
        finalRows == IF Len(resolvedRows.axes) # 0 \/ Len(resolvedColumns.axes) # 0
                     THEN resolvedRows.axes ELSE defaultRows(cube)
        optional == [f \in {g \in {"drill", "rollup"} : g \in DOMAIN merged} |-> merged[f]]
                    @@ [f \in {g \in {"mdx"} : g \in DOMAIN payload} |-> payload[f]]
    IN  IF resolvedRows.error \/ resolvedColumns.error THEN [error |-> TRUE]
        ELSE IF \E i \in 1..Len(merged.measures) : merged.measures[i] \notin DOMAIN cube.measureMap
             THEN [error |-> TRUE]
        ELSE [error |-> FALSE,
              query |-> [cube |-> merged.cube,
                         measures |-> merged.measures,
                         rows |-> finalRows,
                         columns |-> resolvedColumns.axes,
                         slices |-> slices,
                         dices |-> dices,
                         filters |-> filters,
                         allFilters |-> slices \o dices \o filters,
                         includeFlattened |-> includeFlattened] @@ optional]

normalizeMerged(payload, cube, merged) ==
    normalizeResolved(payload, cube, merged,
                      resolveAxes(AxesOf(merged, "rows"), merged, cube),
                      resolveAxes(AxesOf(merged, "columns"), merged, cube))

normalizeParsed(payload, cube, mdxHints) ==
    IF mdxHints.error THEN [error |-> TRUE]
    ELSE normalizeMerged(payload, cube, mergeQueryPayload(mdxHints.partial, payload))

\* [error] when it throws, [query] otherwise.
normalizeQuery(payload, cube) ==
    normalizeParsed(payload, cube, parseLightweightMdx(payload))

----------------------------------------------------------------------------
(* The planner: QueryPlanner.plan *)

referencesSingleDimension(rows, columns) ==
    Cardinality({(rows \o columns)[i].dimension : i \in 1..Len(rows \o columns)}) <= 1

\* A planner that takes a lone column axis for a row axis.
planAnyAxis(context) ==
    IF /\ Len(context.rows) + Len(context.columns) = 1
       /\ context.appliedFilterCount = 0 /\ ~context.hasDrill /\ ~context.hasRollup
    THEN [strategy |-> "pre-aggregate",
          reason |-> "Single-axis aggregation with no filters leverages materialized hierarchy totals."]
    ELSE [strategy |-> "raw-scan",
          reason |-> "Query requires either multiple axes, filters, or drill/roll operations so raw fact scanning is cheaper."]

plan(context) ==
    LET axisCount == Len(context.rows) + Len(context.columns)
        noFilters == context.appliedFilterCount = 0 /\ ~context.hasDrill /\ ~context.hasRollup
    IN  IF /\ axisCount = 1
           /\ Len(context.columns) = 0
           /\ referencesSingleDimension(context.rows, context.columns)
           /\ noFilters
        THEN [strategy |-> "pre-aggregate",
              reason |-> "Single-axis aggregation with no filters leverages materialized hierarchy totals."]
        ELSE [strategy |-> "raw-scan",
              reason |-> "Query requires either multiple axes, filters, or drill/roll operations so raw fact scanning is cheaper."]

planningContext(normalized) ==
    [rows |-> normalized.rows,
     columns |-> normalized.columns,
     appliedFilterCount |-> Len(normalized.allFilters),
     measures |-> normalized.measures,
     hasDrill |-> "drill" \in DOMAIN normalized,
     hasRollup |-> "rollup" \in DOMAIN normalized]

----------------------------------------------------------------------------
(* Filters and drill paths: matchesFilters, evaluateFilter, matchesDrill *)

IsArray(v) == v.t = "array"

valueForFilter(row, filter, cube) ==
    IF filter.dimension \notin DOMAIN cube.dimensionMap THEN Undefined
    ELSE LET hierarchy == cube.dimensionMap[filter.dimension].hierarchy IN
         IF "level" \in DOMAIN filter
         THEN DimensionValue(row, filter.dimension, filter.level)
         ELSE IF hierarchy = <<>> THEN Undefined
         ELSE DimensionValue(row, filter.dimension, hierarchy[Len(hierarchy)])

evaluateFilter(value, filter) ==
    LET target == filter.value
        op == filter.operator
        bothNumbers == IsNumber(value) /\ IsNumber(target)
    IN  CASE op = "eq" -> value = target
          [] op = "neq" -> value # target
          [] op = "in" -> IF IsArray(target) THEN Includes(target.items, value) ELSE value = target
          [] op = "nin" -> IF IsArray(target) THEN ~Includes(target.items, value) ELSE value # target
          [] op = "gt" -> bothNumbers /\ value.n > target.n
          [] op = "gte" -> bothNumbers /\ value.n >= target.n
          [] op = "lt" -> bothNumbers /\ value.n < target.n
          [] op = "lte" -> bothNumbers /\ value.n <= target.n
          [] op = "between" ->
                IF IsArray(target) /\ Len(target.items) = 2
                THEN LET min == ToNumber(target.items[1])
                         max == ToNumber(target.items[2])
                     IN  /\ IsNumber(value)
                         /\ ~min.nan /\ value.n >= min.n
                         /\ ~max.nan /\ value.n <= max.n
                ELSE FALSE
          [] OTHER -> TRUE

Min(a, b) == IF a < b THEN a ELSE b
Abs(a) == IF a < 0 THEN -a ELSE a

\* A matchesDrill that binds the path from fromLevel on.
matchesDrillFromLevel(row, drill, cube) ==
    LET hierarchy == cube.dimensionMap[drill.dimension].hierarchy
        fromIndex == IndexOf(hierarchy, drill.fromLevel)
        length == Min(Len(drill.path), Len(hierarchy) - fromIndex)
    IN  \A i \in 0..(length - 1) :
            LET actual == DimensionValue(row, drill.dimension, hierarchy[fromIndex + i + 1])
            IN  /\ actual # Undefined
                /\ IF IsNumber(actual)
                   THEN ~ToNumber(drill.path[i + 1]).nan /\ ToNumber(drill.path[i + 1]).n = actual.n
                   ELSE StringOf(actual) = StringOf(drill.path[i + 1])

matchesDrill(row, drill, cube) ==
    IF drill.dimension \notin DOMAIN cube.dimensionMap THEN TRUE
    ELSE IF "path" \notin DOMAIN drill \/ drill.path = <<>> THEN TRUE
    ELSE
    LET hierarchy == cube.dimensionMap[drill.dimension].hierarchy
        fromIndex == IndexOf(hierarchy, drill.fromLevel)
        toIndex == IndexOf(hierarchy, drill.toLevel)
        start == Min(fromIndex, toIndex)
        length == Min(Len(drill.path), Abs(toIndex - fromIndex) + 1)
        Bound(i) ==     \* iteration i of the loop does not return false
            LET expected == drill.path[i + 1]
                actual == DimensionValue(row, drill.dimension, hierarchy[start + i + 1])
            IN  /\ actual # Undefined
                /\ IF IsNumber(actual)
                   THEN ~ToNumber(expected).nan /\ ToNumber(expected).n = actual.n
                   ELSE StringOf(actual) = StringOf(expected)
    IN  IF fromIndex = -1 \/ toIndex = -1 THEN TRUE
        ELSE \A i \in 0..(length - 1) : Bound(i)

matchesFilters(row, query, cube) ==
    /\ \A i \in 1..Len(query.allFilters) :
          evaluateFilter(valueForFilter(row, query.allFilters[i], cube), query.allFilters[i])
    /\ ("drill" \in DOMAIN query /\ "path" \in DOMAIN query.drill /\ query.drill.path # <<>>)
          => matchesDrill(row, query.drill, cube)

----------------------------------------------------------------------------
(* Headers, breadcrumbs, suggestions *)

buildCoordinates(row, axes, cube) ==
    [i \in 1..Len(axes) |->
        LET value == DimensionValue(row, axes[i].dimension, axes[i].level)
        IN  [dimension |-> axes[i].dimension,
             level |-> axes[i].level,
             value |-> IF value = Undefined \/ value = Null THEN Str("All") ELSE value]]

\* `${dimension}.${level}:${value}` joined by '|': the value in its string form.
AllKey == "__all__"

buildAxisKey(coords) ==
    IF coords = <<>> THEN AllKey
    ELSE Join([i \in 1..Len(coords) |->
                coords[i].dimension \o "." \o coords[i].level \o ":" \o StringOf(coords[i].value)],
              "|")

\* The separator of the parts of a label, a bullet between two spaces, in ASCII.
Bullet == " * "

\* The label is the string forms of the values joined by the bullet, or 'All'.
toHeader(key, coords) ==
    [key |-> key,
     label |-> IF coords = <<>> THEN "All"
               ELSE Join([i \in 1..Len(coords) |-> StringOf(coords[i].value)], Bullet),
     coordinates |-> coords]

RECURSIVE assignCoordinates(_, _)
assignCoordinates(record, coords) ==
    IF coords = <<>> THEN record
    ELSE assignCoordinates(
            (<<Head(coords).dimension, Head(coords).level>> :> Head(coords).value) @@ record,
            Tail(coords))

buildCoordinateRecord(rowHeader, columnHeader) ==
    assignCoordinates(assignCoordinates(EmptyObject, rowHeader.coordinates),
                      columnHeader.coordinates)

deriveVisualSuggestions(rows, columns, measures) ==
    IF Len(rows) # 0 /\ Len(columns) # 0 THEN <<"heatmap", "stacked-bar">>
    ELSE IF Len(rows) # 0 THEN <<IF Len(rows) = 1 THEN "column" ELSE "matrix", "line">>
    ELSE <<IF Len(measures) > 1 THEN "multi-stat" ELSE "big-number">>

buildBreadcrumbs(query, cube) ==
    IF "drill" \notin DOMAIN query THEN <<>>
    ELSE IF "path" \notin DOMAIN query.drill \/ query.drill.path = <<>> THEN <<>>
    ELSE IF query.drill.dimension \notin DOMAIN cube.dimensionMap THEN <<>>
    ELSE
    LET hierarchy == cube.dimensionMap[query.drill.dimension].hierarchy
        fromIndex == IndexOf(hierarchy, query.drill.fromLevel)
        toIndex == IndexOf(hierarchy, query.drill.toLevel)
        start == Min(fromIndex, toIndex)
        breadth == Abs(toIndex - fromIndex) + 1
        relevantLevels == SubSeq(hierarchy, start + 1, Min(start + breadth, Len(hierarchy)))
    IN  IF fromIndex = -1 \/ toIndex = -1 THEN <<>>
        ELSE [i \in 1..Len(query.drill.path) |->
                [dimension |-> query.drill.dimension,
                 level |-> IF i <= Len(relevantLevels) THEN relevantLevels[i]
                           ELSE query.drill.toLevel,
                 value |-> query.drill.path[i]]]

----------------------------------------------------------------------------
(* The canonical comparator: compareValues *)

\* String.prototype.localeCompare on the texts the model uses: their collation
\* order (digits, then letters, a shorter text before its extensions).
LocaleOrder == <<"0", "1", "2", "3", "4", "5", "6", "7", "8", "9", "a", "All", "b">>

localeCompare(a, b) == IndexOf(LocaleOrder, a) - IndexOf(LocaleOrder, b)

compareValues(a, b) ==
    IF IsNumber(a) /\ IsNumber(b) THEN a.n - b.n
    ELSE localeCompare(StringOf(a), StringOf(b))

\* Array.prototype.sort is stable: an entry goes before the first one that
\* compares greater than it.
RECURSIVE sortEntries(_)
sortEntries(entries) ==
    IF entries = <<>> THEN <<>>
    ELSE LET n == Len(entries)
             sorted == sortEntries(SubSeq(entries, 1, n - 1))
             e == entries[n]
             Greater(x) == compareValues(x.value, e.value) > 0
             at == FindIndex(Greater, sorted)
         IN  IF at = 0 THEN Append(sorted, e)
             ELSE SubSeq(sorted, 1, at - 1) \o <<e>> \o SubSeq(sorted, at, Len(sorted))

----------------------------------------------------------------------------
(* The executor: runPreAggregate, runRawScan *)

emptyResult(plan_) ==
    [data |-> [pivot |-> [rows |-> <<>>, columns |-> <<>>, measures |-> <<>>], flat |-> <<>>],
     breadcrumbs |-> <<>>,
     suggestions |-> <<>>,
     plan |-> plan_]

\* cube.aggregateStore.get(storeKey) ?? new Map()
aggregateStoreGet(cube, key) ==
    LET HasKey(e) == e.key = key
        k == FindIndex(HasKey, cube.aggregateStore)
    IN  IF k = 0 THEN <<>> ELSE cube.aggregateStore[k].entries

\* measuresRecord[measureName] ?? 0
measureOrZero(record, measureName) ==
    IF measureName \in DOMAIN record THEN record[measureName] ELSE 0

\* toHeader(buildAxisKey(coords), coords)
headerOf(coords) == toHeader(buildAxisKey(coords), coords)

\* The QueryResultPayload both strategies return around their pivot and flat.
resultOf(query, cube, plan_, pivot, flat) ==
    [data |-> [pivot |-> pivot, flat |-> flat],
     breadcrumbs |-> buildBreadcrumbs(query, cube),
     suggestions |-> deriveVisualSuggestions(query.rows, query.columns, query.measures),
     plan |-> plan_]

\* runPreAggregate from the sorted entries of the aggregate store on.
preAggregateResult(query, cube, plan_, sortedEntries, rowHeaders, columnHeader) ==
    resultOf(query, cube, plan_,
        [rows |-> rowHeaders,
         columns |-> <<columnHeader>>,
         measures |-> [m \in 1..Len(query.measures) |->
                        [name |-> query.measures[m],
                         values |-> [r \in 1..Len(sortedEntries) |->
                             << measureOrZero(sortedEntries[r].measures, query.measures[m]) >>]]]],
        IF ~query.includeFlattened THEN <<>>
        ELSE [r \in 1..Len(sortedEntries) |->
                [rowKey |-> rowHeaders[r].key,
                 columnKey |-> columnHeader.key,
                 coordinates |-> buildCoordinateRecord(rowHeaders[r], columnHeader),
                 measures |-> [n \in Range(query.measures) |->
                                  measureOrZero(sortedEntries[r].measures, n)]]])

preAggregateSorted(query, cube, plan_, axis, sortedEntries) ==
    preAggregateResult(query, cube, plan_, sortedEntries,
        [i \in 1..Len(sortedEntries) |->
            headerOf(<< [dimension |-> axis.dimension, level |-> axis.level,
                         value |-> sortedEntries[i].value] >>)],
        toHeader(AllKey, <<>>))

preAggregateAxis(query, cube, plan_, axis) ==
    preAggregateSorted(query, cube, plan_, axis,
        sortEntries(aggregateStoreGet(cube, storeKey(axis.dimension, axis.level))))

runPreAggregate(query, cube, plan_) ==
    IF query.rows = <<>> /\ query.columns = <<>> THEN emptyResult(plan_)
    ELSE preAggregateAxis(query, cube, plan_,
                          IF query.rows # <<>> THEN query.rows[1] ELSE query.columns[1])

\* An order that puts a new header before the ones it holds.
orderAddFirst(order, header) ==
    IF \E i \in 1..Len(order) : order[i].key = header.key THEN order ELSE <<header>> \o order

\* rowOrder.set(key, header) / columnOrder.set(key, header) when the key is new.
orderAdd(order, header) ==
    IF \E i \in 1..Len(order) : order[i].key = header.key THEN order ELSE Append(order, header)

\* table is the two-level Map kept as a sequence of cells [rowKey, columnKey,
\* accumulators]: the cell is created when missing, then every requested
\* measure adds the row's metric to its accumulator.
tableAdd(table, rowKey, columnKey, measureDefs, row) ==
    LET IsCell(c) == c.rowKey = rowKey /\ c.columnKey = columnKey
        c == FindIndex(IsCell, table)
    IN  IF c = 0
        THEN Append(table,
                    [rowKey |-> rowKey, columnKey |-> columnKey,
                     accumulators |-> addMeasures(createMeasureAccumulatorSet(measureDefs),
                                                  measureDefs, row)])
        ELSE [table EXCEPT ![c].accumulators = addMeasures(@, measureDefs, row)]

scanInsert(scan, row, measureDefs, rowHeader, columnHeader) ==
    [table |-> tableAdd(scan.table, rowHeader.key, columnHeader.key, measureDefs, row),
     rowOrder |-> orderAdd(scan.rowOrder, rowHeader),
     columnOrder |-> orderAdd(scan.columnOrder, columnHeader)]

\* The body of the fact loop for one row that passed matchesFilters, on
\* scan = [table, rowOrder, columnOrder].
scanRow(scan, row, query, cube, measureDefs) ==
    scanInsert(scan, row, measureDefs,
               headerOf(buildCoordinates(row, query.rows, cube)),
               headerOf(buildCoordinates(row, query.columns, cube)))

RECURSIVE scanLoop(_, _, _, _, _)
scanLoop(scan, rows, query, cube, measureDefs) ==
    IF rows = <<>> THEN scan
    ELSE scanLoop(IF matchesFilters(Head(rows), query, cube)
                  THEN scanRow(scan, Head(rows), query, cube, measureDefs)
                  ELSE scan,
                  Tail(rows), query, cube, measureDefs)

\* table.get(rowKey)?.get(columnKey) is there
hasCell(table, rowKey, columnKey) ==
    \E i \in 1..Len(table) : table[i].rowKey = rowKey /\ table[i].columnKey = columnKey

\* resolvedMeasures?.[measureName] ?? 0 for the cell of (rowKey, columnKey)
cellValue(table, rowKey, columnKey, measureName) ==
    LET IsCell(c) == c.rowKey = rowKey /\ c.columnKey = columnKey
        c == FindIndex(IsCell, table)
    IN  IF c = 0 THEN 0 ELSE finalize(table[c].accumulators[measureName])

\* A matrix row that ends at its last populated cell.
matrixRowSparse(table, rowHeader, columnOrder, measureName) ==
    LET populated == {c \in 1..Len(columnOrder) :
                        hasCell(table, rowHeader.key, columnOrder[c].key)}
        width == IF populated = {} THEN 0
                 ELSE CHOOSE c \in populated : \A d \in populated : d <= c
    IN  [c \in 1..width |-> cellValue(table, rowHeader.key, columnOrder[c].key, measureName)]

\* columnHeaders.map(...) of one row header for one measure: a value per column.
matrixRow(table, rowHeader, columnOrder, measureName) ==
    [c \in 1..Len(columnOrder) |->
        cellValue(table, rowHeader.key, columnOrder[c].key, measureName)]

\* The flat records of one row header: a record per column that has a cell.
flatRow(table, rowHeader, columnOrder, measureNames) ==
    Flatten([c \in 1..Len(columnOrder) |->
        IF hasCell(table, rowHeader.key, columnOrder[c].key)
        THEN << [rowKey |-> rowHeader.key,
                 columnKey |-> columnOrder[c].key,
                 coordinates |-> buildCoordinateRecord(rowHeader, columnOrder[c]),
                 measures |-> [n \in Range(measureNames) |->
                                  cellValue(table, rowHeader.key, columnOrder[c].key, n)]] >>
        ELSE <<>>])

\* runRawScan after the fact loop.
rawScanResult(query, cube, plan_, scan) ==
    resultOf(query, cube, plan_,
        [rows |-> scan.rowOrder,
         columns |-> scan.columnOrder,
         measures |-> [m \in 1..Len(query.measures) |->
                        [name |-> query.measures[m],
                         values |-> [r \in 1..Len(scan.rowOrder) |->
                             matrixRow(scan.table, scan.rowOrder[r], scan.columnOrder,
                                       query.measures[m])]]]],
        IF ~query.includeFlattened THEN <<>>
        ELSE Flatten([r \in 1..Len(scan.rowOrder) |->
                flatRow(scan.table, scan.rowOrder[r], scan.columnOrder, query.measures)]))

rawScanWith(query, cube, plan_, measureDefs) ==
    rawScanResult(query, cube, plan_,
        scanLoop([table |-> <<>>, rowOrder |-> <<>>, columnOrder |-> <<>>],
                 cube.definition.rows, query, cube, measureDefs))

runRawScan(query, cube, plan_) ==
    rawScanWith(query, cube, plan_,
                [i \in 1..Len(query.measures) |-> cube.measureMap[query.measures[i]]])

runPlan(plan_, query, cube) ==
    IF plan_.strategy = "pre-aggregate" THEN runPreAggregate(query, cube, plan_)
    ELSE runRawScan(query, cube, plan_)

----------------------------------------------------------------------------
(* The result cache: new LRUCache({ max, ttl }) as execute uses it *)

\* An entry that never expires.
isStaleNever(entry, t) == FALSE

isStale(entry, t) == TtlMs # 0 /\ t - entry.start > TtlMs

cacheIndex(c, key) == LET HasKey(e) == e.key = key IN FindIndex(HasKey, c)

\* A cache.get that finds nothing.
cacheGetNothing(c, key, t) == [found |-> FALSE, cache |-> c]

\* A cache.get that returns a live entry and leaves it where it is in the order.
cacheGetInPlace(c, key, t) ==
    LET i == cacheIndex(c, key) IN
    IF i = 0 THEN [found |-> FALSE, cache |-> c]
    ELSE IF isStale(c[i], t) THEN [found |-> FALSE, cache |-> RemoveAt(c, i)]
    ELSE [found |-> TRUE, value |-> c[i].value, cache |-> c]

\* cache.get(key): [value found, cache after]. A stale entry is deleted and not
\* returned; a live one becomes the most recently used.
cacheGet(c, key, t) ==
    LET i == cacheIndex(c, key) IN
    IF i = 0 THEN [found |-> FALSE, cache |-> c]
    ELSE IF isStale(c[i], t) THEN [found |-> FALSE, cache |-> RemoveAt(c, i)]
    ELSE [found |-> TRUE, value |-> c[i].value, cache |-> Append(RemoveAt(c, i), c[i])]

\* cache.set(key, value): the entry becomes the most recently used and its TTL
\* starts now; a new key evicts the least recently used entry of a full cache.
cacheSet(c, key, value, t) ==
    LET i == cacheIndex(c, key)
        entry == [key |-> key, value |-> value, start |-> t]
    IN  IF i # 0 THEN Append(RemoveAt(c, i), entry)
        ELSE IF CacheMax # 0 /\ Len(c) >= CacheMax THEN Append(Tail(c), entry)
        ELSE Append(c, entry)

\* cache.getRemainingTTL(key): 0 for a key that is not cached.
getRemainingTTL(c, key, t) ==
    LET i == cacheIndex(c, key) IN
    IF i = 0 THEN 0 ELSE TtlMs - (t - c[i].start)

----------------------------------------------------------------------------
(* execute *)

decorateResponse(cube, query, payload, cacheKey, cacheHit, c, stats) ==
    [data |-> payload.data,
     metadata |->
        [cube |-> cube.definition.name,
         measures |-> query.measures,
         availableMeasures |-> cube.definition.measures,
         breadcrumbs |-> payload.breadcrumbs,
         cache |-> [hit |-> cacheHit,
                    key |-> cacheKey,
                    ttlRemainingMs |-> getRemainingTTL(c, cacheKey, now),
                    stats |-> [hits |-> stats.hits, misses |-> stats.misses, size |-> Len(c)]],
         planner |-> payload.plan,
         suggestions |-> payload.suggestions]]

\* A rejection that has already counted a miss.
rejectedCounted(status) ==
    [status |-> status, cache |-> cache,
     cacheStats |-> [cacheStats EXCEPT !.misses = @ + 1], response |-> EmptyObject]

\* What a call that throws leaves behind: the status of the CubeError, and the
\* cache and the counters as they were.
rejected(status) ==
    [status |-> status, cache |-> cache, cacheStats |-> cacheStats, response |-> EmptyObject]

\* stableStringify({ cube, query, plan }): the object itself, its keys in one order.
fingerprint(normalized, plan_) ==
    [cube |-> normalized.cube, query |-> normalized, plan |-> plan_]

\* The outcome of normalizeQuery on a registered cube.
normalized(outcome, cube) ==
    IF outcome.error THEN [status |-> 400]
    ELSE [status |-> 0, cube |-> cube, query |-> outcome.query]

\* An execute that normalizes the query before it looks the cube up.
prepareParseFirst(payload) ==
    IF parseLightweightMdx(payload).error THEN [status |-> 400]
    ELSE IF ~cubesHas(payload.cube) THEN [status |-> 404]
    ELSE normalized(normalizeQuery(payload, cubesGet(payload.cube)), cubesGet(payload.cube))

\* execute down to the planner: ensureCube throws 404, then normalizeQuery
\* throws 400; status 0 with the cube and the normalized query otherwise.
prepare(payload) ==
    IF ~cubesHas(payload.cube) THEN [status |-> 404]
    ELSE normalized(normalizeQuery(payload, cubesGet(payload.cube)), cubesGet(payload.cube))

\* A cache hit: hits += 1 and the cached payload is decorated.
served(cube, query, cacheKey, cached, stats) ==
    [status |-> 200, cache |-> cached.cache, cacheStats |-> stats,
     response |-> decorateResponse(cube, query, cached.value, cacheKey, TRUE,
                                   cached.cache, stats)]

\* A cache miss after cache.set: misses += 1 and the fresh payload is decorated.
stored(cube, query, cacheKey, fresh, c, stats) ==
    [status |-> 200, cache |-> c, cacheStats |-> stats,
     response |-> decorateResponse(cube, query, fresh, cacheKey, FALSE, c, stats)]

\* A miss that is stored and not counted.
computedUncounted(cube, query, cacheKey, c, fresh) ==
    stored(cube, query, cacheKey, fresh, cacheSet(c, cacheKey, fresh, now), cacheStats)

computed(cube, query, cacheKey, c, fresh) ==
    stored(cube, query, cacheKey, fresh, cacheSet(c, cacheKey, fresh, now),
           [cacheStats EXCEPT !.misses = @ + 1])

looked(cube, query, plan_, cacheKey, cached) ==
    IF cached.found
    THEN served(cube, query, cacheKey, cached, [cacheStats EXCEPT !.hits = @ + 1])
    ELSE computed(cube, query, cacheKey, cached.cache, runPlan(plan_, query, cube))

planned(cube, query, plan_, cacheKey) ==
    looked(cube, query, plan_, cacheKey, cacheGet(cache, cacheKey, now))

keyed(cube, query, plan_) ==
    planned(cube, query, plan_, fingerprint(query, plan_))

prepared(p) ==
    IF p.status # 0 THEN rejected(p.status)
    ELSE keyed(p.cube, p.query, plan(planningContext(p.query)))

execute(payload) == prepared(prepare(payload))

\* querySchema.safeParse(body).success, for bodies whose fields have the right
\* types: `measures` is required and holds at least one name.
querySchemaAccepts(body) == "measures" \in DOMAIN body /\ Len(body.measures) >= 1

\* POST /olap/query
postQuery(body) ==
    IF ~querySchemaAccepts(body) THEN rejected(400) ELSE execute(body)

----------------------------------------------------------------------------
(* The ETL side: src/src/etl and src/src/cube/manager.ts.
   A cell of a CSV row is a scalar: csv-parse with cast: true gives a number
   for numeric text and the text otherwise, "" for an empty cell. A boolean
   and a Date object are scalars of their own type; the Date made by
   `new Date()` carries the count of the Date objects made before it, so that
   === on two Date objects is the identity of the object. *)

Bool(b) == [t |-> "boolean", n |-> 0, s |-> IF b THEN "true" ELSE "false"]
NewDate(id) == [t |-> "date", n |-> id, s |-> ""]

\* The date texts of the model, in calendar order; the time of the i-th is i.
DateText == <<"2024-01-01", "2024-01-02", "2024-01-03">>

\* new Date(value).getTime(): [nan] for an Invalid Date.
TimeOf(v) ==
    IF v.t = "string" /\ \E i \in 1..Len(DateText) : DateText[i] = v.s
    THEN [nan |-> FALSE, n |-> CHOOSE i \in 1..Len(DateText) : DateText[i] = v.s]
    ELSE IF v.t = "number" THEN [nan |-> FALSE, n |-> v.n]
    ELSE IF v.t = "null" THEN [nan |-> FALSE, n |-> 0]
    ELSE [nan |-> TRUE, n |-> 0]

\* row[field]
Field(row, f) == IF f \in DOMAIN row THEN row[f] ELSE Undefined

Largest(S) == CHOOSE m \in S : \A x \in S : x <= m

\* The configuration of the runs: a fact source with a watermark column and a
\* dimension source without one, both sources of the cube sales; the cube
\* orders has the fact source alone.
EtlConfig ==
    [sources |-> << [name |-> "sales_csv", schema |-> "sales", watermarkColumn |-> "sale_date"],
                    [name |-> "products_csv", schema |-> "product"] >>,
     cubes |-> << [name |-> "sales", sources |-> <<"sales_csv", "products_csv">>],
                  [name |-> "orders", sources |-> <<"sales_csv">>] >>]

\* CSVConnector.extract(watermark) on the parsed records of the file; a
\* watermark is [defined |-> FALSE] or [defined |-> TRUE, n |-> its time].
extract(source, records, watermark) ==
    LET hasColumn == "watermarkColumn" \in DOMAIN source
        Newer(row) == LET rowDate == TimeOf(Field(row, source.watermarkColumn))
                      IN  ~rowDate.nan /\ rowDate.n > watermark.n
        filteredData == IF watermark.defined /\ hasColumn THEN SelectSeq(records, Newer)
                        ELSE records
        columnDates == IF hasColumn
                       THEN { TimeOf(Field(filteredData[i], source.watermarkColumn)).n :
                                i \in { j \in 1..Len(filteredData) :
                                          ~TimeOf(Field(filteredData[j], source.watermarkColumn)).nan } }
                       ELSE {}
        staging == [source |-> source.name, schema |-> source.schema, data |-> filteredData]
    IN  IF columnDates = {} THEN staging
        ELSE [watermark |-> Largest(columnDates)] @@ staging

\* domain/models.ts: the zod checks of the three schemas.
IdLike(v) == v.t \in {"string", "number"}                \* z.string().or(z.number())
Positive(v) == v.t = "number" /\ v.n > 0                 \* z.number().positive()
NonEmptyText(v) == v.t = "string" /\ v.s # ""            \* z.string().min(1)
DateLike(v) == v.t = "date" \/ ~TimeOf(v).nan            \* z.coerce.date()
EmailText == {"john@example.com"}
EmailLike(v) == v.t = "string" /\ v.s \in EmailText      \* z.string().email()

SchemaRegistry == {"sales", "product", "customer"}

safeParse(schema, row) ==
    CASE schema = "sales" ->
            /\ IdLike(Field(row, "id"))
            /\ IdLike(Field(row, "product_id"))
            /\ IdLike(Field(row, "customer_id"))
            /\ Positive(Field(row, "quantity"))
            /\ Positive(Field(row, "amount"))
            /\ DateLike(Field(row, "sale_date"))
            /\ NonEmptyText(Field(row, "region"))
            /\ Field(row, "updated_at") = Undefined \/ DateLike(Field(row, "updated_at"))
      [] schema = "product" ->
            /\ IdLike(Field(row, "product_id"))
            /\ NonEmptyText(Field(row, "product_name"))
            /\ NonEmptyText(Field(row, "category"))
            /\ Positive(Field(row, "price"))
            /\ DateLike(Field(row, "valid_from"))
            /\ Field(row, "valid_to") = Undefined \/ DateLike(Field(row, "valid_to"))
            /\ Field(row, "is_current").t \in {"undefined", "boolean"}
      [] schema = "customer" ->
            /\ IdLike(Field(row, "customer_id"))
            /\ NonEmptyText(Field(row, "customer_name"))
            /\ Field(row, "email") = Undefined \/ EmailLike(Field(row, "email"))
            /\ NonEmptyText(Field(row, "segment"))
            /\ DateLike(Field(row, "valid_from"))
            /\ Field(row, "valid_to") = Undefined \/ DateLike(Field(row, "valid_to"))
            /\ Field(row, "is_current").t \in {"undefined", "boolean"}

\* DataValidator.validate: [threw] for an unknown schema, else whether no row
\* has an error, and the rows that have one. A row has an error when the schema
\* rejects it, a required field is null, undefined or '', or a unique field
\* holds a value an earlier row of the batch holds.
validate(staging, uniqueFields, requiredFields) ==
    IF staging.schema \notin SchemaRegistry THEN [threw |-> TRUE]
    ELSE
    LET data == staging.data
        Fails(i) ==
            \/ ~safeParse(staging.schema, data[i])
            \/ \E f \in Range(requiredFields) :
                  Field(data[i], f) \in {Null, Undefined, Str("")}
            \/ \E f \in Range(uniqueFields) :
                  \E j \in 1..(i - 1) : Field(data[j], f) = Field(data[i], f)
        failed == { i \in 1..Len(data) : Fails(i) }
    IN  [threw |-> FALSE, valid |-> failed = {}, rows |-> failed,
         rowsFailed |-> Cardinality(failed), rowsPassed |-> Len(data) - Cardinality(failed)]

\* SCDHandler.buildKey
buildKey(record, keyFields) ==
    Join([i \in 1..Len(keyFields) |->
             IF Field(record, keyFields[i]) \in {Null, Undefined} THEN ""
             ELSE StringOf(Field(record, keyFields[i]))], "|")

\* SCDHandler.hasChanges: !== on the compared fields, none of which is a Date.
hasChanges(existing, incoming, compareFields) ==
    \E i \in 1..Len(compareFields) :
        Field(existing, compareFields[i]) # Field(incoming, compareFields[i])

\* existingMap.get(key): the last current record of the key, 0 for none.
existingMapGet(existing, key, keyFields) ==
    LET hits == { i \in 1..Len(existing) :
                    /\ Field(existing[i], "is_current") = Bool(TRUE)
                    /\ buildKey(existing[i], keyFields) = key }
    IN  IF hits = {} THEN 0 ELSE Largest(hits)

\* A mergeType2 that closes no version when it adds one.
mergeOneKeepingOpen(merged, existing, incomingRecord, found, compareFields, now_) ==
    IF found # 0 /\ ~hasChanges(existing[found], incomingRecord, compareFields) THEN merged
    ELSE [merged EXCEPT !.toInsert = Append(@,
              [valid_from |-> now_, valid_to |-> Null, is_current |-> Bool(TRUE)]
              @@ incomingRecord)]

\* The body of the loop of mergeType2 for one incoming record.
mergeOne(merged, existing, incomingRecord, found, compareFields, now_) ==
    LET newVersion == [valid_from |-> now_, valid_to |-> Null, is_current |-> Bool(TRUE)]
                      @@ incomingRecord
    IN  IF found = 0 THEN [merged EXCEPT !.toInsert = Append(@, newVersion)]
        ELSE IF hasChanges(existing[found], incomingRecord, compareFields)
        THEN [toUpdate |-> Append(merged.toUpdate,
                                  [valid_to |-> now_, is_current |-> Bool(FALSE)]
                                  @@ existing[found]),
              toInsert |-> Append(merged.toInsert, newVersion)]
        ELSE merged

RECURSIVE mergeLoop(_, _, _, _, _, _)
mergeLoop(merged, existing, incoming, keyFields, compareFields, now_) ==
    IF incoming = <<>> THEN merged
    ELSE mergeLoop(mergeOne(merged, existing, Head(incoming),
                            existingMapGet(existing, buildKey(Head(incoming), keyFields),
                                           keyFields),
                            compareFields, now_),
                   existing, Tail(incoming), keyFields, compareFields, now_)

mergeType2(existing, incoming, keyFields, compareFields, now_) ==
    mergeLoop([toInsert |-> <<>>, toUpdate |-> <<>>], existing, incoming, keyFields,
              compareFields, now_)

\* InMemoryStore: [facts, dimensions], each a Map from a table name to its rows.
TableOf(tables, tableName) == IF tableName \in DOMAIN tables THEN tables[tableName] ELSE <<>>

saveFacts(store_, tableName, records) ==
    [store_ EXCEPT !.facts = (tableName :> (TableOf(@, tableName) \o records)) @@ @]

saveDimensions(store_, tableName, records) ==
    [store_ EXCEPT !.dimensions = (tableName :> (TableOf(@, tableName) \o records)) @@ @]

\* The body of the loop of updateDimensions: the first row that agrees with the
\* record on every key but valid_to and is_current takes the record's fields.
updateOne(updated, record) ==
    LET Matches(r) == \A key \in DOMAIN record \ {"valid_to", "is_current"} :
                          Field(r, key) = record[key]
        index == FindIndex(Matches, updated.table)
    IN  IF index = 0 THEN updated
        ELSE [table |-> [updated.table EXCEPT ![index] = record @@ @],
              count |-> updated.count + 1]

RECURSIVE updateLoop(_, _)
updateLoop(updated, records) ==
    IF records = <<>> THEN updated
    ELSE updateLoop(updateOne(updated, Head(records)), Tail(records))

\* updateDimensions: [store, count of the rows updated]
updateDimensions(store_, tableName, records) ==
    IF tableName \notin DOMAIN store_.dimensions THEN [store |-> store_, count |-> 0]
    ELSE LET updated == updateLoop([table |-> store_.dimensions[tableName], count |-> 0], records)
         IN  [store |-> [store_ EXCEPT !.dimensions[tableName] = updated.table],
              count |-> updated.count]

\* getDimensions(tableName, { is_current: true })
getDimensions(store_, tableName) ==
    LET Current(record) == Field(record, "is_current") = Bool(TRUE)
    IN  SelectSeq(TableOf(store_.dimensions, tableName), Current)

getKeyFields(schema) ==
    CASE schema = "product" -> <<"product_id">>
      [] schema = "customer" -> <<"customer_id">>
      [] OTHER -> <<"id">>

getCompareFields(schema) ==
    CASE schema = "product" -> <<"product_name", "category", "price">>
      [] schema = "customer" -> <<"customer_name", "email", "segment">>
      [] OTHER -> <<>>

getUniqueFields(schema) ==
    CASE schema = "sales" -> <<"id">>
      [] schema = "product" -> <<"product_id">>
      [] schema = "customer" -> <<"customer_id">>
      [] OTHER -> <<>>

getRequiredFields(schema) ==
    CASE schema = "sales" -> <<"id", "product_id", "customer_id", "quantity", "amount">>
      [] schema = "product" -> <<"product_id", "product_name", "category">>
      [] schema = "customer" -> <<"customer_id", "customer_name">>
      [] OTHER -> <<>>

\* loadData of a dimension, from the merge on: the closed versions are updated,
\* then the new versions are saved.
loadMerged(store_, tableName, mergeResult) ==
    LET updated == updateDimensions(store_, tableName, mergeResult.toUpdate)
    IN  [store |-> saveDimensions(updated.store, tableName, mergeResult.toInsert),
         inserted |-> Len(mergeResult.toInsert),
         updated |-> updated.count]

\* loadData: [store, inserted, updated]; now_ is the Date mergeType2 makes.
loadData(store_, staging, now_) ==
    IF staging.schema = "sales"
    THEN [store |-> saveFacts(store_, "fact_" \o staging.schema, staging.data),
          inserted |-> Len(staging.data), updated |-> 0]
    ELSE IF staging.schema \in {"product", "customer"}
    THEN loadMerged(store_, "dim_" \o staging.schema,
                    mergeType2(getDimensions(store_, "dim_" \o staging.schema), staging.data,
                               getKeyFields(staging.schema), getCompareFields(staging.schema),
                               now_))
    ELSE [store |-> saveFacts(store_, staging.schema, staging.data),
          inserted |-> Len(staging.data), updated |-> 0]

\* WatermarkTracker.getWatermark on the Map the tracker holds.
getWatermark(tracker, source) ==
    IF source \in DOMAIN tracker THEN [defined |-> TRUE, n |-> tracker[source]]
    ELSE [defined |-> FALSE]

\* The state of a run in progress: the store, the tracker's Map, the count of
\* Date objects made, allMetadata, the batches extracted (history), and the
\* invalidation side.

\* A catch that also sets the watermark of the source to the latest date.
processThrewAdvancing(st, cubeName, sourceName, data) ==
    [st EXCEPT !.metadata = Append(@, [cube |-> cubeName, source |-> sourceName,
                                       rowsProcessed |-> Len(data), rowsInserted |-> 0,
                                       rowsUpdated |-> 0, status |-> "failed",
                                       errors |-> <<"Error">>]),
               !.staged = Append(@, data),
               !.tracker = (sourceName :> Len(DateText)) @@ @]

\* processSource, when a step in its try block throws: the catch makes the run
\* metadata a failure with the message of the error; rowsProcessed is what was
\* set before the throw.
processThrew(st, cubeName, sourceName, data) ==
    [st EXCEPT !.metadata = Append(@, [cube |-> cubeName, source |-> sourceName,
                                       rowsProcessed |-> Len(data), rowsInserted |-> 0,
                                       rowsUpdated |-> 0, status |-> "failed",
                                       errors |-> <<"Error">>]),
               !.staged = Append(@, data)]

\* processSource, once the rows are validated and loaded.
processLoaded(st, cubeName, staging, loaded) ==
    LET metadata == [cube |-> cubeName, source |-> staging.source,
                     rowsProcessed |-> Len(staging.data),
                     rowsInserted |-> loaded.inserted, rowsUpdated |-> loaded.updated,
                     status |-> "success"]
    IN  [st EXCEPT
            !.store = loaded.store,
            !.dates = @ + 1,
            !.tracker = IF "watermark" \in DOMAIN staging
                        THEN (staging.source :> staging.watermark) @@ @ ELSE @,
            !.metadata = Append(@, IF "watermark" \in DOMAIN staging
                                   THEN [watermark |-> staging.watermark] @@ metadata
                                   ELSE metadata),
            !.staged = Append(@, staging.data)]

\* A processSource that loads the rows whatever the validation says.
processValidatedAnyway(st, cubeName, staging, validationResult) ==
    processLoaded(st, cubeName, staging, loadData(st.store, staging, NewDate(st.dates)))

\* processSource, once the rows are validated: a failed run metadata for an
\* unknown schema (the catch) and for an invalid batch, the load otherwise.
processValidated(st, cubeName, staging, validationResult) ==
    LET metadata == [cube |-> cubeName, source |-> staging.source,
                     rowsProcessed |-> Len(staging.data), rowsInserted |-> 0,
                     rowsUpdated |-> 0, status |-> "failed"]
    IN  IF validationResult.threw
        THEN [st EXCEPT !.metadata = Append(@, [errors |-> <<"Unknown schema">>] @@ metadata),
                        !.staged = Append(@, staging.data)]
        ELSE IF ~validationResult.valid
        THEN [st EXCEPT !.metadata = Append(@,
                            [errors |-> << [rowsFailed |-> validationResult.rowsFailed,
                                            rowsPassed |-> validationResult.rowsPassed,
                                            rows |-> validationResult.rows] >>] @@ metadata),
                        !.staged = Append(@, staging.data)]
        ELSE IF faults[staging.source] = "load"
        THEN processThrew(st, cubeName, staging.source, staging.data)
        ELSE processLoaded(st, cubeName, staging,
                           loadData(st.store, staging, NewDate(st.dates)))

\* processSource, once the rows are extracted.
processExtracted(st, cubeName, source, staging) ==
    IF Len(staging.data) = 0
    THEN [st EXCEPT !.metadata = Append(@, [cube |-> cubeName, source |-> source.name,
                                            rowsProcessed |-> 0, rowsInserted |-> 0,
                                            rowsUpdated |-> 0, status |-> "success"]),
                    !.staged = Append(@, <<>>)]
    ELSE processValidated(st, cubeName, staging,
                          validate(staging, getUniqueFields(source.schema),
                                   getRequiredFields(source.schema)))

\* The connector createConnector made for the source, as processSource leaves
\* it: `connected` is the field of BaseConnector (for a PostgresConnector, the
\* pool is open).
connectorLeft(st, source, connected) ==
    [st EXCEPT !.connectors = Append(@, [source |-> source.name, connected |-> connected])]

\* processSource: connect, extract with the watermark this.since ||
\* getWatermark(source.name), disconnect, and the rest; a connect that throws
\* leaves the connector not connected, an extract that throws goes to the
\* catch, past the disconnect.
processSource(st, cubeName, source) ==
    IF faults[source.name] = "connect"
    THEN processThrew(connectorLeft(st, source, FALSE), cubeName, source.name, <<>>)
    ELSE IF faults[source.name] = "extract"
    THEN processThrew(connectorLeft(st, source, TRUE), cubeName, source.name, <<>>)
    ELSE processExtracted(connectorLeft(st, source, FALSE), cubeName, source,
                          extract(source, files[source.name],
                                  IF st.since.defined THEN st.since
                                  ELSE getWatermark(st.tracker, source.name)))

RECURSIVE processSources(_, _, _)
processSources(st, cubeName, sourcesToProcess) ==
    IF sourcesToProcess = <<>> THEN st
    ELSE processSources(processSource(st, cubeName, Head(sourcesToProcess)), cubeName,
                        Tail(sourcesToProcess))

\* The loop of invalidate over the listeners: a listener is "returns",
\* "rejects" (the promise it returns rejects, which the catch logs) or "throws"
\* (it throws before it returns, which ends the loop and the caller).
RECURSIVE notifyLoop(_, _, _, _)
notifyLoop(calls, listeners_, i, event) ==
    IF i > Len(listeners_) THEN [notified |-> calls, threw |-> FALSE]
    ELSE IF listeners_[i] = "throws"
    THEN [notified |-> Append(calls, [listener |-> i, event |-> event]), threw |-> TRUE]
    ELSE notifyLoop(Append(calls, [listener |-> i, event |-> event]), listeners_, i + 1, event)

\* cube/manager.ts CubeManager.invalidate on a manager [invalidations, notified]:
\* the event is pushed, then the listeners are called; [invalidations,
\* notified, threw].
invalidate(manager, cube, sources, reason) ==
    LET event == [cube |-> cube, sources |-> sources, timestamp |-> now, reason |-> reason]
    IN  [invalidations |-> Append(manager.invalidations, event)]
        @@ notifyLoop(manager.notified, listeners, 1, event)

\* cube/manager.ts CubeManager.getInvalidations(cube) of a manager whose
\* invalidations are `raised`: "" is no cube.
getInvalidations(raised, cube) ==
    LET OfCube(inv) == inv.cube = cube
    IN  IF cube # "" THEN SelectSeq(raised, OfCube) ELSE raised

\* run, for one cube, after its sources: the cube is invalidated when a run
\* metadata of allMetadata is a success.
runInvalidated(st, cube, sourcesToProcess) ==
    IF \E i \in 1..Len(st.metadata) : st.metadata[i].status = "success"
    THEN LET called == invalidate(st, cube.name,
                                  [i \in 1..Len(sourcesToProcess) |-> sourcesToProcess[i].name],
                                  "ETL refresh completed")
         IN  [st EXCEPT !.invalidations = called.invalidations,
                        !.notified = called.notified,
                        !.threw = called.threw]
    ELSE st

runCube(st, cube) ==
    LET Configured(source) == \E i \in 1..Len(cube.sources) : cube.sources[i] = source.name
        sourcesToProcess == SelectSeq(EtlConfig.sources, Configured)
    IN  runInvalidated(processSources(st, cube.name, sourcesToProcess), cube, sourcesToProcess)

RECURSIVE runCubes(_, _)
runCubes(st, cubesToProcess) ==
    IF cubesToProcess = <<>> \/ st.threw THEN st
    ELSE runCubes(runCube(st, Head(cubesToProcess)), Tail(cubesToProcess))

\* ETLOrchestrator.run(cubeName) of an orchestrator built with `since`, on the
\* store, the cube manager and the metadata path the runs share: what it
\* leaves. "" is no cube name. The watermarks are loaded from the file at the
\* start and saved to it at the end, which a run that throws does not reach.
run(cubeName, since) ==
    LET Named(cube) == cube.name = cubeName
        cubesToProcess == IF cubeName # "" THEN SelectSeq(EtlConfig.cubes, Named)
                          ELSE EtlConfig.cubes
        start == [store |-> store, tracker |-> watermarks, dates |-> etlRun.dates,
                  since |-> since, metadata |-> <<>>, staged |-> <<>>, connectors |-> <<>>,
                  invalidations |-> invalidations, notified |-> notified, threw |-> FALSE]
    IN  IF cubesToProcess = <<>> THEN [start EXCEPT !.threw = TRUE]
        ELSE runCubes(start, cubesToProcess)

\* The rows of the files: a sale of the product P001, a product.
Sale(id, customer, quantity, day) ==
    [id |-> Num(id), product_id |-> Str("P001"), customer_id |-> Str(customer),
     quantity |-> Num(quantity), amount |-> Num(5), sale_date |-> Str(DateText[day]),
     region |-> Str("North")]

Product(id, name, price) ==
    [product_id |-> Str(id), product_name |-> Str(name), category |-> Str("Electronics"),
     price |-> Num(price), valid_from |-> Str(DateText[1])]

\* The contents of sales.csv: two sales; a third, newer one; a third one with a
\* negative quantity; a third one with an empty customer_id.
SalesFiles ==
    { << Sale(1, "C001", 5, 1), Sale(2, "C002", 3, 2) >>,
      << Sale(1, "C001", 5, 1), Sale(2, "C002", 3, 2), Sale(3, "C001", 2, 3) >>,
      << Sale(1, "C001", 5, 1), Sale(2, "C002", 3, 2), Sale(3, "C001", -1, 3) >>,
      << Sale(1, "C001", 5, 1), Sale(2, "C002", 3, 2), Sale(3, "", 2, 3) >> }

\* The contents of products.csv: two products; the first at another price; the
\* first twice.
ProductFiles ==
    { << Product("P001", "Widget A", 3), Product("P002", "Gadget B", 7) >>,
      << Product("P001", "Widget A", 4), Product("P002", "Gadget B", 7) >>,
      << Product("P001", "Widget A", 3), Product("P001", "Widget A", 4) >> }

FilesOf(source) == IF source = "sales_csv" THEN SalesFiles ELSE ProductFiles

InitialFiles ==
    [sales_csv |-> << Sale(1, "C001", 5, 1), Sale(2, "C002", 3, 2) >>,
     products_csv |-> << Product("P001", "Widget A", 3), Product("P002", "Gadget B", 7) >>]

----------------------------------------------------------------------------
(* The state machine *)

NoCall == [seq |-> 0, op |-> "none", status |-> 0, payload |-> EmptyObject, at |-> 0,
           repeat |-> FALSE, response |-> EmptyObject]

\* The record of a call: its number, its arguments, when it was made, whether it
\* repeats the payload of a successful query made just before it, its outcome.
Called(op, payload, status, response) ==
    [seq |-> last.seq + 1, op |-> op, status |-> status, payload |-> payload, at |-> now,
     repeat |-> last.op \in {"execute", "postQuery"} /\ last.status = 200 /\ last.payload = payload,
     response |-> response]

NoRun == [seq |-> 0, cube |-> "", since |-> [defined |-> FALSE], threw |-> FALSE,
          metadata |-> <<>>, staged |-> <<>>, dates |-> 0, read |-> EmptyObject,
          loadedTo |-> EmptyObject, connectors |-> <<>>]

Init ==
    /\ cubes = <<>>
    /\ cache = <<>>
    /\ cacheStats = [hits |-> 0, misses |-> 0]
    /\ now = 0
    /\ invalidations = <<>>
    /\ last = NoCall
    /\ used = <<>>
    /\ accumulatorOf = [type \in AggregationType |-> createAccumulator(type)]
    /\ inputs = <<>>
    /\ files = InitialFiles
    /\ store = [facts |-> EmptyObject, dimensions |-> EmptyObject]
    /\ watermarks = EmptyObject
    /\ listeners = <<>>
    /\ notified = <<>>
    /\ faults = [source \in DOMAIN InitialFiles |-> "none"]
    /\ etlRun = NoRun

\* A registerCube without the check of the name: this.cubes.set replaces the
\* instance registered under it.
registerCubeReplacing(definition) ==
    IF Len(definition.dimensions) = 0 THEN [status |-> 400, cubes |-> cubes]
    ELSE IF cubesHas(definition.name)
    THEN [status |-> 200,
          cubes |-> [i \in 1..Len(cubes) |->
                        IF cubes[i].definition.name = definition.name
                        THEN CubeInstance(definition) ELSE cubes[i]]]
    ELSE [status |-> 200, cubes |-> Append(cubes, CubeInstance(definition))]

\* registerCube: the status it ends with (400 for the CubeError it throws) and
\* the registry it leaves.
registerCube(definition) ==
    IF cubesHas(definition.name) \/ Len(definition.dimensions) = 0
    THEN [status |-> 400, cubes |-> cubes]
    ELSE [status |-> 200, cubes |-> Append(cubes, CubeInstance(definition))]

Registered(definition, out) ==
    /\ cubes' = out.cubes
    /\ last' = Called("registerCube", [cube |-> definition.name, definition |-> definition],
                      out.status, EmptyObject)

RegisterCube(definition) ==
    /\ last.seq < MaxOps
    /\ Registered(definition, registerCube(definition))
    /\ UNCHANGED <<cache, cacheStats, now, invalidations, used>>
    /\ UNCHANGED <<accVars, etlVars>>

\* The history of the cache keys: the key of an answered query is noted with the
\* number of the call, which has read it with cache.get or written it with
\* cache.set.
Touched(history, key, seq) ==
    LET HasKey(e) == e.key = key
        i == FindIndex(HasKey, history)
    IN  IF i = 0 THEN Append(history, [key |-> key, seq |-> seq])
        ELSE [history EXCEPT ![i].seq = seq]

\* What a query call leaves in the cache, the counters and the record of the call.
Returned(op, payload, out) ==
    /\ cache' = out.cache
    /\ cacheStats' = out.cacheStats
    /\ last' = Called(op, payload, out.status, out.response)
    /\ used' = IF out.status = 200
               THEN Touched(used, out.response.metadata.cache.key, last.seq + 1)
               ELSE used

Execute(payload) ==
    /\ last.seq < MaxOps
    /\ Returned("execute", payload, execute(payload))
    /\ UNCHANGED <<cubes, now, invalidations>>
    /\ UNCHANGED <<accVars, etlVars>>

PostQuery(body) ==
    /\ last.seq < MaxOps
    /\ Returned("postQuery", body, postQuery(body))
    /\ UNCHANGED <<cubes, now, invalidations>>
    /\ UNCHANGED <<accVars, etlVars>>

\* cube/manager.ts CubeManager.invalidate: the event is recorded and the
\* listeners are called; the engine's cache is a field of another object and is
\* not touched.
Invalidated(cube, out) ==
    /\ invalidations' = out.invalidations
    /\ notified' = out.notified
    /\ last' = Called("invalidate", [cube |-> cube], IF out.threw THEN 500 ELSE 200, EmptyObject)

Invalidate(cube, sources, reason) ==
    /\ last.seq < MaxOps
    /\ Invalidated(cube, invalidate([invalidations |-> invalidations, notified |-> notified],
                                    cube, sources, reason))
    /\ UNCHANGED <<cubes, cache, cacheStats, now, used, accVars>>
    /\ UNCHANGED <<files, store, watermarks, listeners, faults, etlRun>>

Tick ==
    /\ now < MaxTime
    /\ now' = now + 1
    /\ UNCHANGED <<cubes, cache, cacheStats, invalidations, last, used>>
    /\ UNCHANGED <<accVars, etlVars>>

\* accumulator.add(value) on the accumulator of every aggregation type, as
\* runRawScan and materializeAggregates give one metric to an accumulator set.
AddValue(value) ==
    /\ Len(inputs) < MaxInputs
    /\ accumulatorOf' = [type \in AggregationType |-> add(accumulatorOf[type], value)]
    /\ inputs' = Append(inputs, value)
    /\ UNCHANGED <<cubes, cache, cacheStats, now, invalidations, last, used, etlVars>>

\* cube/manager.ts CubeManager.onInvalidation
OnInvalidation(listener) ==
    /\ listeners' = Append(listeners, listener)
    /\ UNCHANGED <<cubes, cache, cacheStats, now, invalidations, last, used, accVars>>
    /\ UNCHANGED <<files, store, watermarks, notified, faults, etlRun>>

\* The file of a source is written again with other records.
WriteFile(source, records) ==
    /\ records # files[source]
    /\ files' = [files EXCEPT ![source] = records]
    /\ UNCHANGED <<cubes, cache, cacheStats, now, invalidations, last, used, accVars>>
    /\ UNCHANGED <<store, watermarks, listeners, notified, faults, etlRun>>

\* The environment changes: connect (the file cannot be read), extract (the
\* file cannot be parsed) or the load into the store throws for the source from
\* now on, or none does.
Fail(source, step) ==
    /\ step # faults[source]
    /\ faults' = [faults EXCEPT ![source] = step]
    /\ UNCHANGED <<cubes, cache, cacheStats, now, invalidations, last, used, accVars>>
    /\ UNCHANGED <<files, store, watermarks, listeners, notified, etlRun>>

\* History: the watermark of the last successful load of each source, from the
\* run metadata the runs emitted.
RECURSIVE LoadedTo(_, _)
LoadedTo(marks, metadata) ==
    IF metadata = <<>> THEN marks
    ELSE LoadedTo(IF Head(metadata).status = "success" /\ "watermark" \in DOMAIN Head(metadata)
                  THEN (Head(metadata).source :> Head(metadata).watermark) @@ marks
                  ELSE marks,
                  Tail(metadata))

\* What a run leaves: the store, the watermark file when the run reached its
\* end, the invalidations and the calls of the listeners, and the record of
\* the run with the run metadata it emitted (history: with the files it read
\* and the watermarks of the loads so far).
Ran(cubeName, since, out) ==
    /\ store' = out.store
    /\ watermarks' = IF out.threw THEN watermarks ELSE out.tracker
    /\ invalidations' = out.invalidations
    /\ notified' = out.notified
    /\ etlRun' = [seq |-> etlRun.seq + 1, cube |-> cubeName, since |-> since,
                  threw |-> out.threw, metadata |-> out.metadata, staged |-> out.staged,
                  dates |-> out.dates, read |-> files,
                  loadedTo |-> LoadedTo(etlRun.loadedTo, out.metadata),
                  connectors |-> out.connectors]

\* new ETLOrchestrator({ config, store, cubeManager, metadataPath, since }).run(cubeName)
Run(cubeName, since) ==
    /\ etlRun.seq < MaxRuns
    /\ Ran(cubeName, since, run(cubeName, since))
    /\ UNCHANGED <<cubes, cache, cacheStats, now, last, used, accVars>>
    /\ UNCHANGED <<files, listeners, faults>>

----------------------------------------------------------------------------
(* The cubes and the queries the model draws its inputs from *)

SalesDimensions ==
    << [name |-> "time", hierarchy |-> <<"year", "month">>],
       [name |-> "geo", hierarchy |-> <<"region">>] >>

SalesMeasures ==
    << [name |-> "revenue", valueField |-> "revenue", aggregation |-> "SUM"],
       [name |-> "units", valueField |-> "revenue", aggregation |-> "COUNT"],
       [name |-> "low", valueField |-> "revenue", aggregation |-> "MIN"],
       [name |-> "high", valueField |-> "revenue", aggregation |-> "MAX"],
       [name |-> "orders", valueField |-> "orderId", aggregation |-> "DISTINCT"] >>

Fact(year, month, region, revenue, orderId) ==
    [dimensions |-> [time |-> [year |-> year, month |-> month], geo |-> [region |-> region]],
     metrics |-> [revenue |-> revenue, orderId |-> orderId]]

\* Fact rows with numbers and strings at one level (1 and "1"), a row with no
\* value at some levels, metrics that are numbers, strings, null or absent.
FactPool ==
    { Fact(Num(1), Str("a"), Str("a"), Num(1), Str("a")),
      Fact(Num(2), Str("b"), Str("b"), Num(2), Num(1)),
      Fact(Str("1"), Str("a"), Str("a"), Num(3), Str("1")),
      Fact(Num(1), Undefined, Undefined, Str("a"), Null),
      Fact(Num(2), Str("a"), Str("b"), Num(2), Undefined),
      Fact(Num(1), Str("b"), Str("b"), Num(4), Str("b")) }

RECURSIVE SeqsUpTo(_, _)
SeqsUpTo(S, n) ==
    IF n = 0 THEN {<<>>}
    ELSE SeqsUpTo(S, n - 1) \cup {Append(q, x) : q \in {r \in SeqsUpTo(S, n - 1) : Len(r) = n - 1}, x \in S}

SalesCube(rows) ==
    [name |-> "sales", dimensions |-> SalesDimensions, measures |-> SalesMeasures, rows |-> rows]

\* A cube whose dimension and level names hold the separator of storeKey.
DottedCube ==
    [name |-> "sales",
     dimensions |-> << [name |-> "a", hierarchy |-> <<"b.c">>],
                       [name |-> "a.b", hierarchy |-> <<"c">>] >>,
     measures |-> << [name |-> "revenue", valueField |-> "revenue", aggregation |-> "SUM"] >>,
     rows |-> << [dimensions |-> ("a" :> ("b.c" :> Str("a"))) @@ ("a.b" :> ("c" :> Str("b"))),
                  metrics |-> [revenue |-> Num(1)]] >>]

\* The cubes of the scan specification: every fact list of at most MaxFacts rows,
\* and the cube with dotted names.
ScanDefinitions == {SalesCube(rows) : rows \in SeqsUpTo(FactPool, MaxFacts)} \cup {DottedCube}

SampleFacts ==
    << Fact(Num(1), Str("a"), Str("a"), Num(1), Str("a")),
       Fact(Num(2), Str("b"), Str("b"), Num(2), Num(1)),
       Fact(Num(1), Str("b"), Str("b"), Num(4), Str("b")) >>

\* A definition with no dimension.
NoDimensions == [name |-> "empty", dimensions |-> <<>>, measures |-> SalesMeasures, rows |-> <<>>]

\* The cubes of the cache specification: two definitions of one name, and the
\* definition with no dimension.
Definitions == { SalesCube(SampleFacts), SalesCube(<<>>), NoDimensions }

Axis(dimension, level) == [dimension |-> dimension, level |-> level]
Query(fields) == fields @@ [cube |-> "sales", measures |-> <<"revenue">>]

SliceRegionA == [dimension |-> "geo", level |-> "region", operator |-> "eq", value |-> Str("a")]

\* A SLICE clause with no `=`, a DRILL clause with no target level.
BadSlice == [keyword |-> "SLICE", lhs |-> <<"geo", "region">>, rhs |-> ""]
BadDrill == [keyword |-> "DRILL", dimension |-> "time", fromLevel |-> "year", toLevel |-> "",
             path |-> <<>>]

ByYear == Query([rows |-> <<Axis("time", "year")>>])
ByYearInRegionA == Query([rows |-> <<Axis("time", "year")>>, slices |-> <<SliceRegionA>>])
ByMonth == Query([rows |-> <<Axis("time", "month")>>])
ByRegion == Query([rows |-> <<Axis("geo", "region")>>])
UnknownDimension == Query([rows |-> <<Axis("bogus", "year")>>])
UnknownLevel == Query([rows |-> <<Axis("time", "bogus")>>])
UnknownMeasure == [cube |-> "sales", measures |-> <<"bogus">>, rows |-> <<Axis("time", "year")>>]
MalformedMdx == Query([rows |-> <<Axis("time", "year")>>, mdx |-> <<BadSlice>>])
UnknownCube == [cube |-> "unknown", measures |-> <<"bogus">>, mdx |-> <<BadDrill>>]
NoMeasures == [cube |-> "sales"]

\* The queries of the cache specification.
Payloads ==
    {ByYear, ByYearInRegionA, UnknownDimension, UnknownLevel, UnknownMeasure, MalformedMdx,
     UnknownCube}
Bodies == {NoMeasures, ByYear}

Next ==
    \/ \E definition \in Definitions : last.seq < MaxCalls /\ RegisterCube(definition)
    \/ \E payload \in Payloads : last.seq < MaxCalls /\ Execute(payload)
    \/ \E body \in Bodies : last.seq < MaxCalls /\ PostQuery(body)
    \/ last.seq < MaxCalls /\ Invalidate("sales", <<"orders">>, "ETL refresh completed")
    \/ Tick

Spec == Init /\ [][Next]_vars

----------------------------------------------------------------------------
(* The eviction specification: one cube, more answered queries than the cache
   holds, in every order and at every time *)

LruPayloads == {ByYear, ByYearInRegionA, ByMonth, ByRegion}

LruNext ==
    \/ cubes = <<>> /\ RegisterCube(SalesCube(SampleFacts))
    \/ \E payload \in LruPayloads : cubes # <<>> /\ Execute(payload)
    \/ Tick

LruSpec == Init /\ [][LruNext]_vars

----------------------------------------------------------------------------
(* The scan specification: one cube out of every short fact list, one query
   out of the combinations below, the query run right after the registration *)

ScanAxes ==
    { [rows |-> <<Axis("time", "year")>>],
      [rows |-> <<Axis("time", "month")>>],
      [rows |-> <<Axis("geo", "region")>>],
      [rows |-> <<[dimension |-> "time"]>>],
      [rows |-> <<Axis("time", "year")>>, columns |-> <<Axis("geo", "region")>>],
      [columns |-> <<Axis("time", "year")>>],
      EmptyObject }

ScanMeasures ==
    { <<"revenue">>, <<"revenue", "units">>, <<"low", "high", "orders">>, <<"revenue", "revenue">> }

YearAbove1 == [dimension |-> "time", level |-> "year", operator |-> "gt", value |-> Num(1)]
RegionInAB == [dimension |-> "geo", operator |-> "in",
               value |-> [t |-> "array", items |-> <<Str("a"), Str("b")>>]]
DrillYear1 == [dimension |-> "time", fromLevel |-> "year", toLevel |-> "month",
               path |-> <<Num(1)>>]
RollupToYear == [dimension |-> "time", level |-> "year"]

ScanRestrictions ==
    { EmptyObject,
      [slices |-> <<SliceRegionA>>],
      [filters |-> <<YearAbove1>>],
      [slices |-> <<SliceRegionA>>, dices |-> <<RegionInAB>>, filters |-> <<YearAbove1>>],
      [drill |-> DrillYear1],
      [rollup |-> RollupToYear],
      [includeFlattened |-> FALSE] }

\* Queries that name something the cube does not define.
ScanUnknowns ==
    { Query([rows |-> <<Axis("bogus", "year")>>]),
      Query([rows |-> <<Axis("time", "bogus")>>]),
      Query([columns |-> <<Axis("geo", "bogus")>>]),
      [cube |-> "sales", measures |-> <<"bogus">>, rows |-> <<Axis("time", "year")>>],
      Query([rows |-> <<Axis("time", "year")>>,
             slices |-> <<[dimension |-> "bogus", level |-> "region", operator |-> "eq",
                           value |-> Str("a")]>>]),
      Query([rows |-> <<Axis("time", "year")>>,
             dices |-> <<[dimension |-> "geo", level |-> "bogus", operator |-> "in",
                          value |-> [t |-> "array", items |-> <<Str("a")>>]]>>]),
      Query([rows |-> <<Axis("time", "year")>>,
             filters |-> <<[dimension |-> "geo", level |-> "bogus", operator |-> "neq",
                            value |-> Str("a")]>>]),
      Query([rows |-> <<Axis("geo", "region")>>,
             drill |-> [dimension |-> "bogus", fromLevel |-> "year", toLevel |-> "month",
                        path |-> <<Num(1)>>]]),
      Query([rows |-> <<Axis("time", "year")>>,
             drill |-> [dimension |-> "time", fromLevel |-> "bogus", toLevel |-> "month",
                        path |-> <<Num(1)>>]]),
      Query([rows |-> <<Axis("time", "year")>>,
             drill |-> [dimension |-> "time", fromLevel |-> "year", toLevel |-> "bogus"]]),
      Query([rows |-> <<Axis("geo", "region")>>,
             drill |-> [dimension |-> "time", fromLevel |-> "year", toLevel |-> "bogus"]]),
      Query([rows |-> <<Axis("geo", "region")>>,
             rollup |-> [dimension |-> "bogus", level |-> "year"]]),
      Query([rows |-> <<Axis("time", "month")>>,
             rollup |-> [dimension |-> "time", level |-> "bogus"]]),
      Query([rows |-> <<Axis("geo", "region")>>,
             rollup |-> [dimension |-> "time", level |-> "bogus"]]),
      MalformedMdx,
      UnknownCube }

ScanPayloads ==
    { axes @@ restriction @@ [cube |-> "sales", measures |-> measures] :
        axes \in ScanAxes, restriction \in ScanRestrictions, measures \in ScanMeasures }
    \cup ScanUnknowns

ScanNext ==
    \/ \E definition \in ScanDefinitions : cubes = <<>> /\ RegisterCube(definition)
    \/ \E payload \in ScanPayloads : last.op = "registerCube" /\ Execute(payload)

ScanSpec == Init /\ [][ScanNext]_vars

----------------------------------------------------------------------------
(* The merge specification: one cube, and payloads that supply a field in the
   mdx string, in the structured payload, in both or in neither *)

\* MEASURES revenue; ROWS geo.region; COLUMNS time.year; SLICE geo.region = b;
\* DICE time.year IN (1, 2); FILTER time.month >= 1; DRILL time month -> year;
\* ROLLUP geo region
MdxClauses ==
    << [keyword |-> "MEASURES", names |-> <<"revenue">>],
       [keyword |-> "ROWS", axes |-> << <<"geo", "region">> >>],
       [keyword |-> "COLUMNS", axes |-> << <<"time", "year">> >>],
       [keyword |-> "SLICE", lhs |-> <<"geo", "region">>, rhs |-> "b"],
       [keyword |-> "DICE", lhs |-> <<"time", "year">>, items |-> <<"1", "2">>, matched |-> TRUE],
       [keyword |-> "FILTER", lhs |-> <<"time", "month">>, op |-> ">=", rhs |-> "1",
        matched |-> TRUE],
       [keyword |-> "DRILL", dimension |-> "time", fromLevel |-> "month", toLevel |-> "year",
        path |-> <<>>],
       [keyword |-> "ROLLUP", dimension |-> "geo", level |-> "region"] >>

MdxKeywords == { MdxClauses[i].keyword : i \in 1..Len(MdxClauses) }

\* The mdx string made of the clauses of the given keywords.
MdxOf(keywords) == LET Kept(c) == c.keyword \in keywords IN SelectSeq(MdxClauses, Kept)

\* The structured fields, each with a value the mdx string does not give it.
StructuredFields ==
    [measures |-> <<"units">>,
     rows |-> <<Axis("time", "month")>>,
     columns |-> <<Axis("geo", "region")>>,
     slices |-> <<SliceRegionA>>,
     dices |-> <<RegionInAB>>,
     filters |-> <<YearAbove1>>,
     drill |-> DrillYear1,
     rollup |-> RollupToYear,
     includeFlattened |-> FALSE]

MergePayload(fields, keywords) ==
    [f \in fields |-> StructuredFields[f]] @@ [cube |-> "sales", mdx |-> MdxOf(keywords)]

\* Every choice of structured fields with the whole mdx string, and every
\* choice of clauses with no structured field and with all of them.
MergePayloads ==
    { MergePayload(fields, MdxKeywords) : fields \in SUBSET DOMAIN StructuredFields }
    \cup { MergePayload(fields, keywords) :
              fields \in {{}, DOMAIN StructuredFields}, keywords \in SUBSET MdxKeywords }

MergeNext ==
    \/ cubes = <<>> /\ RegisterCube(SalesCube(SampleFacts))
    \/ \E payload \in MergePayloads : last.op = "registerCube" /\ Execute(payload)

MergeSpec == Init /\ [][MergeNext]_vars

----------------------------------------------------------------------------
(* The accumulator specification: every short list of measure values *)

MeasureValues == {Num(-1), Num(1), Num(2), Str("1"), Str("a"), Str(""), Null, Undefined}

AccNext == \E value \in MeasureValues : AddValue(value)

AccSpec == Init /\ [][AccNext]_vars

----------------------------------------------------------------------------
(* The ETL specification: listeners are registered, the files are rewritten,
   and the cube sales, or a cube the configuration lacks, is refreshed with
   and without --since *)

\* The listeners registered on the cube manager, in order.
Registrations ==
    { <<>>, <<"returns">>, <<"rejects">>, <<"throws">>,
      <<"returns", "returns">>, <<"rejects", "returns">>, <<"throws", "returns">> }

Sinces == { [defined |-> FALSE], [defined |-> TRUE, n |-> 1] }

EtlNext ==
    \/ \E listener \in {"returns", "rejects", "throws"} :
          /\ etlRun.seq = 0 /\ Append(listeners, listener) \in Registrations
          /\ OnInvalidation(listener)
    \/ \E source \in DOMAIN files : \E records \in FilesOf(source) :
          /\ etlRun.seq < MaxRuns
          /\ WriteFile(source, records)
    \/ \E since \in Sinces : Run("sales", since)
    \/ Run("inventory", [defined |-> FALSE])

EtlSpec == Init /\ [][EtlNext]_vars

----------------------------------------------------------------------------
(* The specification of the runs over all the cubes: the file of the sales is
   written, a step of the processing of the sales starts or stops throwing,
   every cube is refreshed. *)

Steps == {"none", "connect", "extract", "load"}

RunFiles ==
    { << Sale(1, "C001", 5, 1), Sale(2, "C002", 3, 2), Sale(3, "C001", 2, 3) >>,
      << Sale(1, "C001", 5, 1), Sale(2, "C002", 3, 2), Sale(3, "C001", -1, 3) >> }

RunsNext ==
    \/ \E records \in RunFiles :
          /\ etlRun.seq < MaxRuns
          /\ WriteFile("sales_csv", records)
    \/ \E step \in Steps :
          /\ etlRun.seq < MaxRuns
          /\ Fail("sales_csv", step)
    \/ \E since \in Sinces : Run("", since)

RunsSpec == Init /\ [][RunsNext]_vars

----------------------------------------------------------------------------
(* The specification of the listeners: listeners are registered and cubes are
   invalidated. *)

ListenerNext ==
    \/ \E listener \in {"returns", "rejects", "throws"} :
          /\ Append(listeners, listener) \in Registrations
          /\ OnInvalidation(listener)
    \/ \E cube \in {"sales", "orders"} :
          /\ last.seq < MaxCalls
          /\ Invalidate(cube, <<"sales_csv">>, "ETL refresh completed")

ListenerSpec == Init /\ [][ListenerNext]_vars

----------------------------------------------------------------------------
(* The axis specification: a cube whose dimension time has three levels, and
   queries with every combination of row axis, column axis, drill and rollup *)

CalendarCube ==
    [name |-> "sales",
     dimensions |-> << [name |-> "time", hierarchy |-> <<"year", "quarter", "month">>],
                       [name |-> "geo", hierarchy |-> <<"region">>] >>,
     measures |-> SalesMeasures,
     rows |-> <<>>]

Drill(dimension, fromLevel, toLevel) ==
    [dimension |-> dimension, fromLevel |-> fromLevel, toLevel |-> toLevel]

AxisPayloads ==
    { rows @@ columns @@ drill @@ rollup @@ [cube |-> "sales", measures |-> <<"revenue">>] :
        rows \in { [rows |-> <<Axis("time", "year")>>], [rows |-> <<Axis("time", "quarter")>>],
                   [rows |-> <<Axis("time", "month")>>], [rows |-> <<[dimension |-> "time"]>>],
                   [rows |-> <<Axis("geo", "region")>>] },
        columns \in { EmptyObject, [columns |-> <<Axis("geo", "region")>>],
                      [columns |-> <<Axis("time", "quarter")>>] },
        drill \in { EmptyObject, [drill |-> Drill("time", "year", "month")],
                    [drill |-> Drill("time", "month", "year")],
                    [drill |-> Drill("time", "quarter", "quarter")],
                    [drill |-> Drill("geo", "region", "region")] },
        rollup \in { EmptyObject, [rollup |-> Axis("time", "year")],
                     [rollup |-> Axis("time", "quarter")], [rollup |-> Axis("time", "month")],
                     [rollup |-> Axis("geo", "region")] } }

AxisNext ==
    \/ cubes = <<>> /\ RegisterCube(CalendarCube)
    \/ \E payload \in AxisPayloads : last.op = "registerCube" /\ Execute(payload)

AxisSpec == Init /\ [][AxisNext]_vars

----------------------------------------------------------------------------
(* The filter specification: a cube of one fact, and a query with one filter
   out of every operator and value below *)

List(items) == [t |-> "array", items |-> items]

FilterOperators == {"eq", "neq", "in", "nin", "gt", "gte", "lt", "lte", "between"}

\* z.union([scalarValue, z.array(scalarValue).min(1), z.tuple([scalarValue, scalarValue])])
FilterValues ==
    { Num(1), Num(2), Str("1"), Str("a"),
      List(<<Num(1)>>), List(<<Num(1), Num(2)>>), List(<<Num(2), Num(1)>>),
      List(<<Str("1"), Num(2)>>), List(<<Str("1"), Str("a")>>),
      List(<<Num(1), Num(2), Str("a")>>) }

FilterPayloads ==
    { Query([rows |-> <<Axis("time", "year")>>,
             filters |-> << [dimension |-> axis.dimension, level |-> axis.level,
                             operator |-> operator, value |-> value] >>]) :
        axis \in {Axis("time", "year"), Axis("geo", "region")},
        operator \in FilterOperators, value \in FilterValues }

FilterNext ==
    \/ \E fact \in FactPool : cubes = <<>> /\ RegisterCube(SalesCube(<<fact>>))
    \/ \E payload \in FilterPayloads : last.op = "registerCube" /\ Execute(payload)

FilterSpec == Init /\ [][FilterNext]_vars

----------------------------------------------------------------------------
(* The drill specification: the three-level cube with one fact, and a query by
   region with a drill on time between every two levels, along every path *)

CalendarFact(year, quarter, month) ==
    [dimensions |-> [time |-> [year |-> year, quarter |-> quarter, month |-> month],
                     geo |-> [region |-> Str("a")]],
     metrics |-> [revenue |-> Num(1), orderId |-> Str("a")]]

\* Facts with numbers and strings at the levels, and facts with no value at one.
CalendarFacts ==
    { CalendarFact(Num(1), Str("a"), Str("b")),
      CalendarFact(Str("1"), Num(2), Str("a")),
      CalendarFact(Num(1), Undefined, Str("b")),
      CalendarFact(Num(2), Str("a"), Undefined) }

\* Paths of one to four values, longer than the hierarchy at most by one.
DrillPaths ==
    { <<Num(1)>>, <<Str("1")>>, <<Num(2)>>, <<Str("a")>>, <<Str("b")>>,
      <<Num(1), Str("a")>>, <<Str("1"), Str("2")>>, <<Str("a"), Str("b")>>,
      <<Num(1), Str("b")>>, <<Num(1), Str("a"), Str("b")>>, <<Num(2), Str("a"), Str("a")>>,
      <<Num(1), Str("a"), Str("b"), Str("a")>> }

DrillPayloads ==
    { Query([rows |-> <<Axis("geo", "region")>>,
             drill |-> [path |-> path] @@ Drill("time", fromLevel, toLevel)]) :
        fromLevel \in {"year", "quarter", "month"}, toLevel \in {"year", "quarter", "month"},
        path \in DrillPaths }

DrillNext ==
    \/ \E fact \in CalendarFacts :
          cubes = <<>> /\ RegisterCube([CalendarCube EXCEPT !.rows = <<fact>>])
    \/ \E payload \in DrillPayloads : last.op = "registerCube" /\ Execute(payload)

DrillSpec == Init /\ [][DrillNext]_vars

----------------------------------------------------------------------------
(* Properties of the cache specification *)

\* The call recorded in `call` is an execute that returned a result.
Answered(call) == call.op = "execute" /\ call.status = 200

\* The step is the execute that follows the answered execute of the same payload.
RepeatedExecute ==
    /\ Answered(last) /\ Answered(last')
    /\ last'.seq = last.seq + 1
    /\ last'.payload = last.payload

\* The second call returns the first one's data as a hit that counts no miss.
ServedAgain ==
    /\ last'.response.data = last.response.data
    /\ last'.response.metadata.cache.hit
    /\ last'.response.metadata.cache.stats.hits > last.response.metadata.cache.stats.hits
    /\ last'.response.metadata.cache.stats.misses = last.response.metadata.cache.stats.misses

\* When the entry the first call stored or served was stored.
StoredAt == cache[cacheIndex(cache, last.response.metadata.cache.key)].start

\* C1 as stated: two executes in a row of the same valid query, less than ttlMs
\* apart (cache.max >= 1), and the second returns identical data, reports
\* cache.hit, more hits than the first call reported and the same misses.
C1_WithinTtlOfFirstCall ==
    [][(CacheMax >= 1 /\ RepeatedExecute /\ last'.at - last.at < TtlMs) => ServedAgain]_vars

\* C1 amended: the same, when less than ttlMs has elapsed at the second call
\* since the entry was stored (a hit does not restart the entry's TTL).
C1_WithinTtlOfStore ==
    [][(CacheMax >= 1 /\ RepeatedExecute /\ last'.at - StoredAt < TtlMs) => ServedAgain]_vars

\* A repeated execute, made later than the first but within the entry's TTL, was a hit.
C1_Witness ==
    /\ Answered(last) /\ last.repeat
    /\ last.response.metadata.cache.hit
    /\ last.response.metadata.cache.ttlRemainingMs \in 1..(TtlMs - 1)

\* C2: after invalidate(cube), the next execute of a query of that cube that was
\* cached before the invalidation is a miss, whatever TTL remains.
C2_InvalidatedIsMiss ==
    [][(/\ last.op = "invalidate"
        /\ Answered(last')
        /\ last'.seq = last.seq + 1
        /\ last'.payload.cube = last.payload.cube
        /\ cacheIndex(cache, last'.response.metadata.cache.key) # 0)
       => ~last'.response.metadata.cache.hit]_vars

C9_UnknownCubeIs404 ==
    [][(/\ last'.seq # last.seq
        /\ last'.op = "execute"
        /\ ~cubesHas(last'.payload.cube))
       => (last'.status = 404 /\ UNCHANGED <<cubes, cache, cacheStats>>)]_vars

\* An execute with a malformed mdx and an unknown measure on an unknown cube
\* returned 404 while another cube was registered and an entry cached.
C9_Witness ==
    /\ last.op = "execute" /\ last.status = 404 /\ last.payload = UnknownCube
    /\ cubes # <<>>
    /\ cache # <<>>

----------------------------------------------------------------------------
(* Properties of the scan specification *)

\* The cube, the normalized query and the result of the answered execute in `last`.
LastCube == cubesGet(last.payload.cube)
LastQuery == prepare(last.payload).query
LastPivot == last.response.data.pivot
LastPlan == last.response.metadata.planner

\* A measure's accumulator run over the metrics of a list of fact rows.
Accumulated(measure, facts) ==
    finalize(addAll(createAccumulator(measure.aggregation),
                    [i \in 1..Len(facts) |-> extractMeasureValue(facts[i], measure)]))

\* C4: in a raw-scan result, values[r][c] of measure M is M's accumulator run
\* over exactly the fact rows that pass every filter and the drill path and
\* whose coordinates on the row and column axes are those of r and c.
C4_CellAccumulatesItsFacts ==
    (Answered(last) /\ LastPlan.strategy = "raw-scan") =>
        \A m \in 1..Len(LastPivot.measures), r \in 1..Len(LastPivot.rows),
           c \in 1..Len(LastPivot.columns) :
            LET InCell(f) ==
                    /\ matchesFilters(f, LastQuery, LastCube)
                    /\ buildCoordinates(f, LastQuery.rows, LastCube) = LastPivot.rows[r].coordinates
                    /\ buildCoordinates(f, LastQuery.columns, LastCube)
                          = LastPivot.columns[c].coordinates
            IN  LastPivot.measures[m].values[r][c]
                    = Accumulated(LastCube.measureMap[LastPivot.measures[m].name],
                                  SelectSeq(LastCube.definition.rows, InCell))

\* C5: after registerCube the store of every (dimension, level) has one entry
\* per value some fact carries there and no other, and the number stored for a
\* measure is its accumulator run over exactly the facts that carry the value.
C5_StoreAccumulatesItsFacts ==
    \A k \in 1..Len(cubes) :
        LET definition == cubes[k].definition IN
        \A d \in 1..Len(definition.dimensions) :
        \A l \in 1..Len(definition.dimensions[d].hierarchy) :
            LET dimension == definition.dimensions[d].name
                level == definition.dimensions[d].hierarchy[l]
                entries == aggregateStoreGet(cubes[k], storeKey(dimension, level))
                observed == {DimensionValue(definition.rows[i], dimension, level) :
                                i \in 1..Len(definition.rows)} \ {Undefined}
            IN  /\ {entries[i].value : i \in 1..Len(entries)} = observed
                /\ Cardinality(observed) = Len(entries)
                /\ \A i \in 1..Len(entries), m \in 1..Len(definition.measures) :
                      LET Carries(f) == DimensionValue(f, dimension, level) = entries[i].value
                      IN  entries[i].measures[definition.measures[m].name]
                            = Accumulated(definition.measures[m],
                                          SelectSeq(definition.rows, Carries))

\* A pivot with its rows, and the rows of its matrices, in the order of the
\* canonical comparator on the value of the row axis.
Canonical(pivot) ==
    LET order == sortEntries([i \in 1..Len(pivot.rows) |->
                    [value |-> pivot.rows[i].coordinates[1].value, index |-> i]])
    IN  [rows |-> [i \in 1..Len(order) |-> pivot.rows[order[i].index]],
         columns |-> pivot.columns,
         measures |-> [m \in 1..Len(pivot.measures) |->
                        [name |-> pivot.measures[m].name,
                         values |-> [i \in 1..Len(order) |->
                                        pivot.measures[m].values[order[i].index]]]]]

\* C6: for a query the planner routes to pre-aggregate, the raw scan of the same
\* normalized query gives the same pivot once its rows are in canonical order.
C6_RawScanGivesTheSamePivot ==
    (Answered(last) /\ LastPlan.strategy = "pre-aggregate") =>
        Canonical(runRawScan(LastQuery, LastCube, LastPlan).data.pivot) = LastPivot

\* Some fact that passes the filters and the drill path has the keys of row r
\* and column c of the result.
Contributed(r, c) ==
    \E i \in 1..Len(LastCube.definition.rows) :
        /\ matchesFilters(LastCube.definition.rows[i], LastQuery, LastCube)
        /\ buildAxisKey(buildCoordinates(LastCube.definition.rows[i], LastQuery.rows, LastCube))
              = LastPivot.rows[r].key
        /\ buildAxisKey(buildCoordinates(LastCube.definition.rows[i], LastQuery.columns, LastCube))
              = LastPivot.columns[c].key

\* C7: in a result every measure's matrix has a row per row header and in it a
\* cell per column header, no more, and a cell no fact contributed to holds 0
\* (a pre-aggregate result has a row only per stored value: every cell of it
\* has the facts that made the store's entry).
C7_MatrixIsDense ==
    Answered(last) =>
        \A m \in 1..Len(LastPivot.measures) :
            /\ DOMAIN LastPivot.measures[m].values = 1..Len(LastPivot.rows)
            /\ \A r \in 1..Len(LastPivot.rows) :
                  /\ DOMAIN LastPivot.measures[m].values[r] = 1..Len(LastPivot.columns)
                  /\ \A c \in 1..Len(LastPivot.columns) :
                        (LastPlan.strategy = "raw-scan" /\ ~Contributed(r, c))
                            => LastPivot.measures[m].values[r][c] = 0

\* A result of two rows and two columns with a cell no fact contributed to.
C7_Witness ==
    /\ Answered(last) /\ LastPlan.strategy = "raw-scan"
    /\ Len(LastPivot.rows) = 2 /\ Len(LastPivot.columns) = 2
    /\ \E r \in 1..2, c \in 1..2 : ~Contributed(r, c)

\* C8: the plan is pre-aggregate exactly when the normalized query has one axis
\* in all, a row axis, no slice, dice or filter, no drill and no rollup; it is
\* raw-scan otherwise.
C8_PreAggregateIff ==
    Answered(last) =>
        /\ LastPlan.strategy \in {"pre-aggregate", "raw-scan"}
        /\ LastPlan.strategy = "pre-aggregate" <=>
              /\ Len(LastQuery.rows) + Len(LastQuery.columns) = 1
              /\ Len(LastQuery.rows) = 1
              /\ Len(LastQuery.slices) + Len(LastQuery.dices) + Len(LastQuery.filters) = 0
              /\ "drill" \notin DOMAIN LastQuery
              /\ "rollup" \notin DOMAIN LastQuery

\* A query with a lone row axis on a cube with facts was planned pre-aggregate.
C8_Witness ==
    /\ Answered(last)
    /\ LastPlan.strategy = "pre-aggregate"
    /\ LastPivot.rows # <<>>

\* A reference to a dimension, or to a level of it, that the cube does not define.
NotDefined(cube, ref) ==
    \/ ref.dimension \notin DOMAIN cube.dimensionMap
    \/ /\ "level" \in DOMAIN ref
       /\ ~Includes(cube.dimensionMap[ref.dimension].hierarchy, ref.level)

NoLevel(cube, dimension, level) ==
    \/ dimension \notin DOMAIN cube.dimensionMap
    \/ ~Includes(cube.dimensionMap[dimension].hierarchy, level)

ReferencesUnknown(payload, cube) ==
    \/ \E f \in {"rows", "columns", "slices", "dices", "filters"} :
          \E i \in 1..Len(ListOf(payload, f)) : NotDefined(cube, ListOf(payload, f)[i])
    \/ \E i \in 1..Len(payload.measures) : payload.measures[i] \notin DOMAIN cube.measureMap
    \/ /\ "drill" \in DOMAIN payload
       /\ \/ NoLevel(cube, payload.drill.dimension, payload.drill.fromLevel)
          \/ NoLevel(cube, payload.drill.dimension, payload.drill.toLevel)
    \/ /\ "rollup" \in DOMAIN payload
       /\ NoLevel(cube, payload.rollup.dimension, payload.rollup.level)

----------------------------------------------------------------------------
(* Properties of the registry *)

\* C11: registerCube of a name that is registered, or of a definition with no
\* dimension, ends with status 400 and leaves the registry as it was: the same
\* instances (definition and pre-aggregates) and the same names for listCubes.
C11_RejectedRegistrationChangesNothing ==
    [][(/\ last'.seq # last.seq
        /\ last'.op = "registerCube"
        /\ \/ cubesHas(last'.payload.cube)
           \/ last'.payload.definition.dimensions = <<>>)
       => (last'.status = 400 /\ UNCHANGED cubes /\ listCubes' = listCubes)]_vars

\* A definition was rejected for the name of a cube registered with other rows.
C11_Witness ==
    /\ last.op = "registerCube" /\ last.status = 400
    /\ cubes # <<>>
    /\ last.payload.cube = cubes[1].definition.name
    /\ last.payload.definition # cubes[1].definition

----------------------------------------------------------------------------
(* Properties of the cache bound *)

CacheKeys(c) == { c[i].key : i \in 1..Len(c) }

\* The call that last read or wrote the key.
LastUse(key) == LET HasKey(e) == e.key = key IN used[FindIndex(HasKey, used)].seq

\* The entries of the cache before the step that the cache after it lacks.
Evicted == { i \in 1..Len(cache) : cache[i].key \notin CacheKeys(cache') }

\* C12: (cache.max >= 1) the cache never holds more than cache.max entries and
\* no call reports a larger stats.size; the query an execute has just answered
\* is resident after the call; an entry the call has dropped from the cache was
\* the least recently read or written of the entries the cache held.
C12_BoundedLeastRecentlyUsed ==
    [][(CacheMax >= 1 /\ last'.seq # last.seq /\ last'.op \in {"execute", "postQuery"}
        /\ last'.status = 200)
       => LET info == last'.response.metadata.cache IN
          /\ Len(cache') <= CacheMax
          /\ info.stats.size <= CacheMax
          /\ info.key \in CacheKeys(cache')
          /\ \A i \in Evicted :
                /\ ~info.hit /\ Len(cache) = CacheMax
                /\ \A j \in 1..Len(cache) : LastUse(cache[i].key) <= LastUse(cache[j].key)]_vars

\* A miss has been stored in a full cache and has evicted an entry that was
\* written after an entry the cache keeps, which was read since: the cache holds
\* the key of the miss and the first key used, and lacks the second.
C12_Witness ==
    /\ Answered(last) /\ ~last.response.metadata.cache.hit
    /\ Len(cache) = CacheMax
    /\ Len(used) > CacheMax
    /\ last.response.metadata.cache.key \in CacheKeys(cache)
    /\ used[1].key \in CacheKeys(cache)
    /\ used[2].key \notin CacheKeys(cache)
    /\ now <= TtlMs

----------------------------------------------------------------------------
(* Properties of the entry lifetime *)

\* The step is a query call that returned a result.
QueryAnswered ==
    /\ last'.seq # last.seq
    /\ last'.op \in {"execute", "postQuery"}
    /\ last'.status = 200

\* The entry the cache held for the key of the answered query before the call,
\* 0 when it held none, and the time elapsed since the miss that stored it.
HeldAt == cacheIndex(cache, last'.response.metadata.cache.key)
Elapsed == now - cache[HeldAt].start

\* The call was a miss that counted, and stored an entry whose lifetime starts now.
Restored ==
    LET info == last'.response.metadata.cache
        j == cacheIndex(cache', info.key)
    IN  /\ ~info.hit
        /\ cacheStats'.misses = cacheStats.misses + 1
        /\ cacheStats'.hits = cacheStats.hits
        /\ j # 0 /\ cache'[j].start = now
        /\ cache'[j].value.data = last'.response.data

\* C13 as stated (ttlMs >= 1): a hit is served only while less than ttlMs has
\* elapsed since the miss that stored the entry; the query executed once ttlMs
\* has elapsed is a miss that stores the result again; on a hit ttlRemainingMs
\* is a number, at most ttlMs.
C13_HitOnlyBeforeTtl ==
    [][(TtlMs >= 1 /\ QueryAnswered)
       => LET info == last'.response.metadata.cache IN
          /\ info.hit => (HeldAt # 0 /\ Elapsed < TtlMs /\ info.ttlRemainingMs \in 0..TtlMs)
          /\ (HeldAt # 0 /\ Elapsed >= TtlMs) => Restored]_vars

\* C13: (ttlMs >= 1) a hit is served only while at most ttlMs has elapsed since
\* the miss that stored the entry; the query executed when more than ttlMs has
\* elapsed is a miss that counts, recomputes and stores the result with a new
\* lifetime; on a hit ttlRemainingMs is a number between 0 and ttlMs.
C13_HitOnlyWithinTtl ==
    [][(TtlMs >= 1 /\ QueryAnswered)
       => LET info == last'.response.metadata.cache IN
          /\ info.hit => (HeldAt # 0 /\ Elapsed <= TtlMs /\ info.ttlRemainingMs \in 0..TtlMs)
          /\ (HeldAt # 0 /\ Elapsed > TtlMs) => Restored]_vars

\* An entry stored by a miss has outlived ttlMs and the query has been answered
\* again by a miss, after a hit had served it.
C13_Witness ==
    /\ Answered(last) /\ ~last.response.metadata.cache.hit
    /\ last.response.metadata.cache.stats.hits >= 1
    /\ last.response.metadata.cache.stats.misses = 2
    /\ last.at > TtlMs
    /\ Len(cache) = 1

----------------------------------------------------------------------------
(* Properties of the merge of the mdx string *)

\* The payload of the answered execute without its mdx string, and what the mdx
\* string parses to.
Structured == [f \in DOMAIN last.payload \ {"mdx"} |-> last.payload[f]]
MdxHints == parseLightweightMdx(last.payload).partial

\* The value the structured payload gives the field if it gives one, the mdx
\* value if only the mdx string gives one, `none` otherwise.
Chosen(f, none) ==
    IF f \in DOMAIN Structured THEN Structured[f]
    ELSE IF f \in DOMAIN MdxHints THEN MdxHints[f]
    ELSE none

\* The structured payload that supplies every field with the chosen value.
ChosenPayload ==
    [f \in DOMAIN Structured \cup DOMAIN MdxHints |-> Chosen(f, <<>>)]

\* C14: the normalized query of a payload with an mdx string has, in every
\* field, the structured payload's value when the payload supplies the field,
\* and the mdx value only when the payload omits it; its axes are those of the
\* structured payload made of these values, so no mdx value is merged into a
\* structured one.
C14_StructuredValueWins ==
    (Answered(last) /\ "mdx" \in DOMAIN last.payload) =>
        /\ \A f \in {"measures", "slices", "dices", "filters"} : LastQuery[f] = Chosen(f, <<>>)
        /\ LastQuery.includeFlattened = Chosen("includeFlattened", TRUE)
        /\ \A f \in {"drill", "rollup"} :
              IF f \in DOMAIN Structured \cup DOMAIN MdxHints
              THEN f \in DOMAIN LastQuery /\ LastQuery[f] = Chosen(f, <<>>)
              ELSE f \notin DOMAIN LastQuery
        /\ \A f \in {"rows", "columns"} :
              /\ LastQuery[f] = normalizeQuery(ChosenPayload, LastCube).query[f]
              /\ f \in DOMAIN Structured =>
                    /\ Len(LastQuery[f]) = Len(Structured[f])
                    /\ \A i \in 1..Len(Structured[f]) :
                          LastQuery[f][i].dimension = Structured[f][i].dimension

\* A query was answered whose mdx string and structured payload both supply the
\* slices and the drill, with different values, and whose rows only the mdx
\* string supplies.
C14_Witness ==
    /\ Answered(last) /\ "mdx" \in DOMAIN last.payload
    /\ {"slices", "drill"} \subseteq DOMAIN Structured \cap DOMAIN MdxHints
    /\ Structured.slices # MdxHints.slices /\ Structured.drill # MdxHints.drill
    /\ "rows" \in DOMAIN MdxHints \ DOMAIN Structured
    /\ LastQuery.slices = Structured.slices
    /\ LastQuery.rows[1].dimension = MdxHints.rows[1].dimension

----------------------------------------------------------------------------
(* Properties of the accumulators *)

\* The positions of the inputs that are numbers, and of those that are neither
\* null nor undefined.
Numeric == { i \in 1..Len(inputs) : IsNumber(inputs[i]) }
Given == { i \in 1..Len(inputs) : inputs[i] # Null /\ inputs[i] # Undefined }

RECURSIVE SumOver(_)
SumOver(positions) ==
    IF positions = {} THEN 0
    ELSE LET i == CHOOSE j \in positions : TRUE IN inputs[i].n + SumOver(positions \ {i})

Finalized(type) == finalize(accumulatorOf[type])

\* C19: over the values added so far, SUM is the sum of the numbers only;
\* COUNT is the number of values that are neither null nor undefined, strings
\* included; MIN and MAX are the smallest and the largest number, 0 when there
\* is none; AVG is 0 when there is no number (and the sum of the numbers
\* divided by their count otherwise); DISTINCT is the number of distinct
\* string forms of the values that are neither null nor undefined.
C19_AccumulatorResults ==
    /\ Finalized("SUM") = SumOver(Numeric)
    /\ Finalized("COUNT") = Cardinality(Given)
    /\ IF Numeric = {}
       THEN Finalized("MIN") = 0 /\ Finalized("MAX") = 0 /\ Finalized("AVG") = 0
       ELSE /\ \E i \in Numeric : Finalized("MIN") = inputs[i].n
            /\ \A i \in Numeric : Finalized("MIN") <= inputs[i].n
            /\ \E i \in Numeric : Finalized("MAX") = inputs[i].n
            /\ \A i \in Numeric : Finalized("MAX") >= inputs[i].n
            /\ Finalized("AVG") = Quotient(SumOver(Numeric), Cardinality(Numeric))
    /\ Finalized("DISTINCT") = Cardinality({ StringOf(inputs[i]) : i \in Given })

\* The accumulators were given the number 1, the string "1" and a null: DISTINCT
\* counts one value, COUNT two, SUM, MIN and MAX see the number alone.
C19_Witness ==
    /\ Range(inputs) = {Num(1), Str("1"), Null}
    /\ Finalized("DISTINCT") = 1
    /\ Finalized("COUNT") = 2
    /\ Finalized("SUM") = 1 /\ Finalized("MIN") = 1 /\ Finalized("MAX") = 1

----------------------------------------------------------------------------
(* Properties of the normalized axes *)

\* The payload of the answered execute merged with its mdx string, and the axes
\* it gives for rows or columns.
LastMerged == mergeQueryPayload(parseLightweightMdx(last.payload).partial, last.payload)
GivenAxes(f) == AxesOf(LastMerged, f)

\* The dimension of the cube of that name.
Dimension(name) ==
    LET dimensions == LastCube.definition.dimensions
    IN  dimensions[CHOOSE i \in 1..Len(dimensions) : dimensions[i].name = name]

Finest(name) == LET hierarchy == Dimension(name).hierarchy IN hierarchy[Len(hierarchy)]

\* A drill or a rollup of the merged query names the dimension.
Rewritten(name) ==
    \/ "drill" \in DOMAIN LastMerged /\ LastMerged.drill.dimension = name
    \/ "rollup" \in DOMAIN LastMerged /\ LastMerged.rollup.dimension = name

\* C20: in the normalized query of an answered execute, every row and column
\* axis names a dimension of the cube and a level of its hierarchy; an axis
\* given without a level is resolved as the same axis given with the finest
\* (last) level, which is its level when no drill or rollup is on the
\* dimension; when no row and no column axis is given, the rows are the one
\* axis of the first dimension at its coarsest (first) level.
C20_AxesAreResolved ==
    Answered(last) =>
        /\ \A f \in {"rows", "columns"} : \A i \in 1..Len(LastQuery[f]) :
              LET axis == LastQuery[f][i] IN
              /\ \E d \in 1..Len(LastCube.definition.dimensions) :
                    /\ LastCube.definition.dimensions[d].name = axis.dimension
                    /\ "level" \in DOMAIN axis
                    /\ Includes(LastCube.definition.dimensions[d].hierarchy, axis.level)
        /\ \A f \in {"rows", "columns"} : \A i \in 1..Len(GivenAxes(f)) :
              LET given == GivenAxes(f)[i] IN
              "level" \notin DOMAIN given =>
                  /\ LastQuery[f][i]
                        = resolveAxis(("level" :> Finest(given.dimension)) @@ given,
                                      LastMerged, LastCube).axis
                  /\ ~Rewritten(given.dimension) =>
                        LastQuery[f][i].level = Finest(given.dimension)
        /\ (GivenAxes("rows") = <<>> /\ GivenAxes("columns") = <<>>) =>
              /\ LastQuery.columns = <<>>
              /\ LastQuery.rows
                    = << [dimension |-> LastCube.definition.dimensions[1].name,
                          level |-> LastCube.definition.dimensions[1].hierarchy[1]] >>

\* A query whose row axis names the dimension time and no level was answered,
\* with no drill or rollup: the axis is at month, the last of year and month.
C20_Witness ==
    /\ Answered(last)
    /\ GivenAxes("rows") = << [dimension |-> "time"] >>
    /\ ~Rewritten("time")
    /\ Dimension("time").hierarchy = <<"year", "month">>
    /\ LastQuery.rows = << [dimension |-> "time", level |-> "month"] >>

----------------------------------------------------------------------------
(* Properties of the ETL specification *)

SourceNamed(name) ==
    EtlConfig.sources[CHOOSE i \in 1..Len(EtlConfig.sources) : EtlConfig.sources[i].name = name]

\* The batch the k-th source of a run extracted, as the validator is given it.
Batch(r, k) ==
    [source |-> r.metadata[k].source, schema |-> SourceNamed(r.metadata[k].source).schema,
     data |-> r.staged[k]]

\* At least one row of the batch fails the schema, a required-field or the
\* uniqueness check.
Invalid(r, k) ==
    /\ r.staged[k] # <<>>
    /\ ~validate(Batch(r, k), getUniqueFields(Batch(r, k).schema),
                 getRequiredFields(Batch(r, k).schema)).valid

\* The table a source is loaded into.
TableName(schema) == IF schema = "sales" THEN "fact_" \o schema ELSE "dim_" \o schema

\* The record holds the values of the row (valid_from is set by the load).
Carries(record, row) ==
    \A f \in DOMAIN row \ {"valid_from"} : Field(record, f) = row[f]

Count(table, row) == Cardinality({ i \in 1..Len(table) : Carries(table[i], row) })

\* C15: for every source processed by an ETL run, if at least one extracted row
\* fails validation, then no row of that batch is written to any fact or
\* dimension table (no table holds one more record with the values of a row of
\* the batch than before the run), the source's run metadata has status
\* 'failed' with a non-empty errors list, and the table of the source is what
\* it was before the run.
C15_InvalidBatchIsNotLoaded ==
    [][etlRun'.seq = etlRun.seq + 1 =>
          \A k \in 1..Len(etlRun'.metadata) :
              Invalid(etlRun', k) =>
                  /\ etlRun'.metadata[k].status = "failed"
                  /\ "errors" \in DOMAIN etlRun'.metadata[k]
                  /\ etlRun'.metadata[k].errors # <<>>
                  /\ \A kind \in {"facts", "dimensions"} :
                        \A t \in DOMAIN store'[kind] :
                            \A i \in 1..Len(etlRun'.staged[k]) :
                                Count(store'[kind][t], etlRun'.staged[k][i])
                                    = Count(TableOf(store[kind], t), etlRun'.staged[k][i])
                  /\ LET t == TableName(Batch(etlRun', k).schema) IN
                     /\ TableOf(store'.facts, t) = TableOf(store.facts, t)
                     /\ TableOf(store'.dimensions, t) = TableOf(store.dimensions, t)]_vars

\* A second run extracted a sale with a negative quantity after the first run
\* had stored two sales: the source failed and the two sales are what is stored.
C15_Witness ==
    /\ etlRun.seq = 2
    /\ \E k \in 1..Len(etlRun.metadata) :
          /\ etlRun.metadata[k].source = "sales_csv"
          /\ Invalid(etlRun, k)
          /\ \E i \in 1..Len(etlRun.staged[k]) : etlRun.staged[k][i].quantity = Num(-1)
          /\ etlRun.metadata[k].status = "failed"
    /\ TableOf(store.facts, "fact_sales") = InitialFiles.sales_csv

\* The records of a dimension table that have the key, in the order of the table.
Versions(table, key, schema) ==
    LET HasKey(record) == buildKey(record, getKeyFields(schema)) = key
    IN  SelectSeq(table, HasKey)

DimensionKeys(table, schema) ==
    { buildKey(table[i], getKeyFields(schema)) : i \in 1..Len(table) }

\* The dimension batches a run loaded: the indexes of its sources whose schema
\* is a dimension's and whose run metadata is a success with rows.
LoadedDimensions(r) ==
    { k \in 1..Len(r.metadata) :
        /\ Batch(r, k).schema \in {"product", "customer"}
        /\ r.metadata[k].status = "success"
        /\ r.staged[k] # <<>> }

\* The record agrees with the row on the compared fields.
SameValues(record, row, schema) ==
    \A i \in 1..Len(getCompareFields(schema)) :
        Field(record, getCompareFields(schema)[i]) = Field(row, getCompareFields(schema)[i])

\* Exactly one version of every key is current; every other one is closed.
OneCurrent(table, schema) ==
    \A key \in DimensionKeys(table, schema) :
        LET versions == Versions(table, key, schema) IN
        /\ Cardinality({ i \in 1..Len(versions) : versions[i].is_current = Bool(TRUE) }) = 1
        /\ \A i \in 1..Len(versions) :
              versions[i].is_current # Bool(TRUE) =>
                  /\ versions[i].is_current = Bool(FALSE)
                  /\ versions[i].valid_to.t = "date"

CurrentOf(table, key, schema) ==
    LET versions == Versions(table, key, schema)
    IN  versions[CHOOSE i \in 1..Len(versions) : versions[i].is_current = Bool(TRUE)]

\* C16: after any sequence of ETL runs that load a dimension source, for every
\* dimension key the store holds exactly one record with is_current = true, and
\* it carries the values of the most recent load (a run that loads a record of
\* the key leaves a current version with the record's values in the compared
\* fields; a run that loads none leaves the versions of the key as they were);
\* every superseded version has is_current = false and a valid_to set; a run
\* whose incoming record equals the current version on all compared fields adds
\* no version of the key and closes none.
C16_OneCurrentVersionPerKey ==
    [][etlRun'.seq = etlRun.seq + 1 =>
          \A schema \in {"product", "customer"} :
              LET before == TableOf(store.dimensions, TableName(schema))
                  after == TableOf(store'.dimensions, TableName(schema))
                  loaded == { k \in LoadedDimensions(etlRun') : Batch(etlRun', k).schema = schema }
                  incoming == UNION { Range(etlRun'.staged[k]) : k \in loaded }
              IN  /\ OneCurrent(after, schema)
                  /\ \A row \in incoming :
                        LET key == buildKey(row, getKeyFields(schema)) IN
                        /\ key \in DimensionKeys(after, schema)
                        /\ SameValues(CurrentOf(after, key, schema), row, schema)
                        /\ (/\ key \in DimensionKeys(before, schema)
                            /\ SameValues(CurrentOf(before, key, schema), row, schema))
                              => Versions(after, key, schema) = Versions(before, key, schema)
                  /\ \A key \in DimensionKeys(before, schema) :
                        (\A row \in incoming : buildKey(row, getKeyFields(schema)) # key)
                            => Versions(after, key, schema) = Versions(before, key, schema)]_vars

\* Two runs loaded products.csv, the second with another price of P001: P001
\* has a closed version at the first price and a current one at the second,
\* and P002, which came unchanged, has the one version of the first run.
C16_Witness ==
    /\ etlRun.seq = 2
    /\ LoadedDimensions(etlRun) # {}
    /\ LET table == TableOf(store.dimensions, "dim_product") IN
       /\ Len(Versions(table, "P001", "product")) = 2
       /\ Versions(table, "P001", "product")[1].price = Num(3)
       /\ Versions(table, "P001", "product")[1].is_current = Bool(FALSE)
       /\ Versions(table, "P001", "product")[1].valid_to = NewDate(1)
       /\ CurrentOf(table, "P001", "product").price = Num(4)
       /\ Len(Versions(table, "P002", "product")) = 1
       /\ CurrentOf(table, "P002", "product").valid_from = NewDate(0)

\* The watermark a run starts a source from: the --since value when given,
\* otherwise the watermark of the source's last successful load.
Effective(r, loadedTo, source) ==
    IF r.since.defined THEN r.since ELSE getWatermark(loadedTo, source)

\* The source was loaded successfully by the run.
LoadedBy(r, source) ==
    \E k \in 1..Len(r.metadata) :
        r.metadata[k].source = source /\ r.metadata[k].status = "success"

\* C17: for every configured source, an ETL run loads only rows that are new
\* relative to the effective watermark: rows whose watermark-column value is at
\* or before the effective watermark are not extracted, and a second run
\* without --since over a source that is unchanged since the run that loaded it
\* processes zero rows and inserts no fact a second time.
C17_OnlyNewRowsAreLoaded ==
    [][etlRun'.seq = etlRun.seq + 1 =>
          \A k \in 1..Len(etlRun'.metadata) :
              LET source == SourceNamed(etlRun'.metadata[k].source)
                  effective == Effective(etlRun', etlRun.loadedTo, source.name)
              IN  /\ ("watermarkColumn" \in DOMAIN source /\ effective.defined) =>
                        \A i \in 1..Len(etlRun'.staged[k]) :
                            TimeOf(etlRun'.staged[k][i][source.watermarkColumn]).n > effective.n
                  /\ (/\ ~etlRun'.since.defined
                      /\ LoadedBy(etlRun, source.name)
                      /\ files[source.name] = etlRun.read[source.name])
                        => /\ etlRun'.metadata[k].rowsProcessed = 0
                           /\ store'.facts = store.facts]_vars

\* The cube of the configuration a run was asked for.
CubeNamed(name) ==
    EtlConfig.cubes[CHOOSE i \in 1..Len(EtlConfig.cubes) : EtlConfig.cubes[i].name = name]

\* C18: when an ETL run for a cube ends with at least one of its sources loaded
\* successfully, the cube manager records one invalidation event for that cube
\* and every listener registered before the run is called exactly once with an
\* event whose cube is the cube's name and whose sources are the names of all
\* sources configured for that cube; the event is retrievable afterwards
\* through getInvalidations in the order it was raised (after the events
\* raised before it).
C18_RunInvalidatesAndNotifies ==
    [][(/\ etlRun'.seq = etlRun.seq + 1
        /\ \E k \in 1..Len(etlRun'.metadata) : etlRun'.metadata[k].status = "success")
          => LET cube == CubeNamed(etlRun'.cube)
                 calls == SubSeq(notified', Len(notified) + 1, Len(notified'))
                 raised == getInvalidations(invalidations', cube.name)
             IN  /\ Len(raised) = Len(getInvalidations(invalidations, cube.name)) + 1
                 /\ SubSeq(raised, 1, Len(raised) - 1) = getInvalidations(invalidations, cube.name)
                 /\ raised[Len(raised)].cube = cube.name
                 /\ Range(raised[Len(raised)].sources) = Range(cube.sources)
                 /\ getInvalidations(invalidations', "")
                       = Append(getInvalidations(invalidations, ""), raised[Len(raised)])
                 /\ \A i \in 1..Len(listeners) :
                       Cardinality({ c \in 1..Len(calls) : calls[c].listener = i }) = 1
                 /\ \A c \in 1..Len(calls) : calls[c].event = raised[Len(raised)]]_vars

----------------------------------------------------------------------------
(* Properties of the axis specification *)

\* The place of a level in the hierarchy of the dimension, the coarsest first.
Place(name, level) ==
    CHOOSE i \in 1..Len(Dimension(name).hierarchy) : Dimension(name).hierarchy[i] = level

\* The level of a given axis: its own, the finest of the dimension without one.
GivenLevel(axis) == IF "level" \in DOMAIN axis THEN axis.level ELSE Finest(axis.dimension)

DrillOn(name) == "drill" \in DOMAIN LastMerged /\ LastMerged.drill.dimension = name
RollupOn(name) == "rollup" \in DOMAIN LastMerged /\ LastMerged.rollup.dimension = name

\* C21: for every axis on dimension D of an answered query: if the query has a
\* drill on D the resolved level is drill.toLevel, whatever the axis level and
\* whatever rollup is present; otherwise, if the query has a rollup on D and the
\* axis level is finer than the rollup level, the resolved level is the rollup
\* level; otherwise the axis level is unchanged. Axes on other dimensions are
\* never rewritten, and a rollup never makes an axis finer.
C21_DrillThenRollupThenAxis ==
    Answered(last) =>
        \A f \in {"rows", "columns"} : \A i \in 1..Len(GivenAxes(f)) :
            LET given == GivenAxes(f)[i]
                resolved == LastQuery[f][i]
                D == given.dimension
            IN  /\ resolved.dimension = D
                /\ DrillOn(D) => resolved.level = LastMerged.drill.toLevel
                /\ (~DrillOn(D) /\ RollupOn(D)
                      /\ Place(D, GivenLevel(given)) > Place(D, LastMerged.rollup.level))
                        => resolved.level = LastMerged.rollup.level
                /\ (~DrillOn(D) /\ ~(RollupOn(D)
                      /\ Place(D, GivenLevel(given)) > Place(D, LastMerged.rollup.level)))
                        => resolved.level = GivenLevel(given)
                /\ ~DrillOn(D) => Place(D, resolved.level) <= Place(D, GivenLevel(given))

\* An answered query with the row axis time.quarter, a column axis on geo, a
\* drill on time to month and a rollup of time to year: rows at month, the
\* column axis as given.
C21_Witness ==
    /\ Answered(last)
    /\ GivenAxes("rows") = <<Axis("time", "quarter")>>
    /\ GivenAxes("columns") = <<Axis("geo", "region")>>
    /\ DrillOn("time") /\ LastMerged.drill.toLevel = "month"
    /\ RollupOn("time") /\ LastMerged.rollup.level = "year"
    /\ LastQuery.rows = <<Axis("time", "month")>>
    /\ LastQuery.columns = <<Axis("geo", "region")>>

----------------------------------------------------------------------------
(* Properties of the filter specification *)

\* The one filter of the answered query, the value the one fact of the cube has
\* at the filter's level, and whether the fact is in the result.
TheFilter == last.payload.filters[1]
FactValue == DimensionValue(LastCube.definition.rows[1], TheFilter.dimension, TheFilter.level)
Contributes == last.response.data.pivot.rows # <<>>

\* The provided list of in/nin: the list, or the one value given in its place.
Provided(target) == IF target.t = "array" THEN Range(target.items) ELSE {target}

\* The predicate of the filter as the operators are described.
Holds(value, operator, target) ==
    CASE operator = "eq" -> value = target
      [] operator = "neq" -> value # target
      [] operator = "in" -> value \in Provided(target)
      [] operator = "nin" -> value \notin Provided(target)
      [] operator = "gt" -> value.t = "number" /\ target.t = "number" /\ value.n > target.n
      [] operator = "gte" -> value.t = "number" /\ target.t = "number" /\ value.n >= target.n
      [] operator = "lt" -> value.t = "number" /\ target.t = "number" /\ value.n < target.n
      [] operator = "lte" -> value.t = "number" /\ target.t = "number" /\ value.n <= target.n
      [] operator = "between" ->
            /\ target.t = "array" /\ Len(target.items) = 2
            /\ value.t = "number"
            /\ target.items[1].t = "number" /\ target.items[2].t = "number"
            /\ target.items[1].n <= value.n /\ value.n <= target.items[2].n

\* C22: for every fact value and filter: eq/neq compare by strict equality
\* without type coercion; in/nin test membership in the provided list; gt, gte,
\* lt, lte hold only when both the fact value and the filter value are numbers,
\* and otherwise the row fails the predicate; between holds only when the fact
\* value and both bounds are numbers and lower <= value <= upper, inclusive on
\* both ends. The fact is in the result exactly when the predicate holds.
C22_FilterOperators ==
    (Answered(last) /\ "filters" \in DOMAIN last.payload /\ Len(last.payload.filters) = 1
        /\ Len(LastCube.definition.rows) = 1)
        => (Contributes <=> Holds(FactValue, TheFilter.operator, TheFilter.value))

----------------------------------------------------------------------------
(* Properties of the drill specification *)

\* The drill of the answered query, the hierarchy of its dimension, the first
\* level of the drilled range and the number of path elements bound to a level.
TheDrill == LastQuery.drill
DrillHierarchy == Dimension(TheDrill.dimension).hierarchy
RangeStart ==
    IF Place(TheDrill.dimension, TheDrill.fromLevel) < Place(TheDrill.dimension, TheDrill.toLevel)
    THEN Place(TheDrill.dimension, TheDrill.fromLevel)
    ELSE Place(TheDrill.dimension, TheDrill.toLevel)
RangeLength ==
    IF Place(TheDrill.dimension, TheDrill.fromLevel) < Place(TheDrill.dimension, TheDrill.toLevel)
    THEN Place(TheDrill.dimension, TheDrill.toLevel) - RangeStart + 1
    ELSE Place(TheDrill.dimension, TheDrill.fromLevel) - RangeStart + 1
BoundCount == IF Len(TheDrill.path) < RangeLength THEN Len(TheDrill.path) ELSE RangeLength

\* The fact has, at the i-th level of the drilled range, the i-th value of the
\* path: as a number when the fact value is a number, by string form otherwise.
PathValueAt(row, i) ==
    LET actual == DimensionValue(row, TheDrill.dimension, DrillHierarchy[RangeStart + i - 1])
        expected == TheDrill.path[i]
    IN  /\ actual # Undefined
        /\ IF actual.t = "number"
           THEN ~ToNumber(expected).nan /\ ToNumber(expected).n = actual.n
           ELSE StringOf(actual) = StringOf(expected)

\* An answered query with a drill path between two levels of the hierarchy.
Drilled ==
    /\ Answered(last)
    /\ "drill" \in DOMAIN LastQuery /\ "path" \in DOMAIN TheDrill /\ TheDrill.path # <<>>
    /\ Includes(DrillHierarchy, TheDrill.fromLevel)
    /\ Includes(DrillHierarchy, TheDrill.toLevel)

\* C23: when drill.path is non-empty (and no filter is given), a fact row
\* contributes to the result exactly when, for each i below min(path length,
\* |fromIndex - toIndex| + 1), the row has a value at hierarchy level
\* min(fromIndex, toIndex) + i of the drill dimension and that value equals
\* path[i] (numerically when the fact value is a number, by string form
\* otherwise); a row missing any bound level is excluded, and path elements
\* beyond the drilled range constrain nothing.
C23_DrillPathBindsTheRange ==
    (Drilled /\ LastQuery.allFilters = <<>>) =>
        \A r \in 1..Len(LastCube.definition.rows) :
            LET row == LastCube.definition.rows[r] IN
            (\E h \in 1..Len(last.response.data.pivot.rows) :
                 last.response.data.pivot.rows[h]
                     = headerOf(buildCoordinates(row, LastQuery.rows, LastCube)))
                <=> \A i \in 1..BoundCount : PathValueAt(row, i)

\* A drill from month up to quarter along the path 2, 'a', 'a' on the fact
\* ('1', 2, 'a'): quarter and month are bound, the third element is not, and
\* the fact is in the result.
C23_Witness ==
    /\ Drilled
    /\ TheDrill.fromLevel = "month" /\ TheDrill.toLevel = "quarter"
    /\ TheDrill.path = <<Num(2), Str("a"), Str("a")>>
    /\ LastCube.definition.rows = <<CalendarFact(Str("1"), Num(2), Str("a"))>>
    /\ BoundCount = 2
    /\ Len(last.response.data.pivot.rows) = 1

\* C24: for every query with a non-empty drill.path, the breadcrumbs in the
\* response correspond one-to-one to the path elements that drill matching
\* bound: breadcrumb i has the drill dimension, the value path[i], and the
\* level hierarchy[min(fromIndex, toIndex) + i]; no breadcrumb is emitted for a
\* path element that was not bound to a level of that range.
C24_BreadcrumbsAreTheBoundPath ==
    Drilled =>
        /\ Len(last.response.metadata.breadcrumbs) = BoundCount
        /\ \A i \in 1..BoundCount :
              last.response.metadata.breadcrumbs[i]
                  = [dimension |-> TheDrill.dimension,
                     level |-> DrillHierarchy[RangeStart + i - 1],
                     value |-> TheDrill.path[i]]

----------------------------------------------------------------------------
(* Properties of the order of the headers *)

\* The facts of the cube that pass the filters and the drill path of the
\* answered query, in registration order.
PassingFacts ==
    LET Passes(f) == matchesFilters(f, LastQuery, LastCube)
    IN  SelectSeq(LastCube.definition.rows, Passes)

\* The keys of the coordinate combinations of the facts on the axes.
KeysMet(facts, axes) ==
    [n \in 1..Len(facts) |-> buildAxisKey(buildCoordinates(facts[n], axes, LastCube))]

\* The places in a list of keys of the keys no place before them holds, and
\* the r-th of them.
FirstMeetings(keys) ==
    { n \in 1..Len(keys) : \A k \in 1..(n - 1) : keys[k] # keys[n] }
Meeting(firsts, r) ==
    CHOOSE n \in firsts : Cardinality({ k \in firsts : k < n }) = r - 1

\* The headers are those of the first meetings, in their order.
InOrder(headers, facts, axes, keys, firsts) ==
    /\ Len(headers) = Cardinality(firsts)
    /\ \A r \in 1..Len(headers) :
          /\ headers[r].key = keys[Meeting(firsts, r)]
          /\ headers[r].coordinates
                = buildCoordinates(facts[Meeting(firsts, r)], axes, LastCube)
    /\ \A r, q \in 1..Len(headers) : headers[r].key = headers[q].key => r = q
InOrderOf(headers, facts, axes, keys) == InOrder(headers, facts, axes, keys, FirstMeetings(keys))
InOrderMet(headers, facts, axes) == InOrderOf(headers, facts, axes, KeysMet(facts, axes))

\* Matrix row r and column c of every measure named once belong to the r-th
\* row header and the c-th column header.
CellsOfHeaders(pivot, facts, rowKeys, columnKeys) ==
    \A m \in 1..Len(pivot.measures) :
        /\ Len(pivot.measures[m].values) = Len(pivot.rows)
        /\ \A r \in 1..Len(pivot.rows) :
              /\ Len(pivot.measures[m].values[r]) = Len(pivot.columns)
              /\ \A c \in 1..Len(pivot.columns) :
                    LET cell == { n \in 1..Len(facts) : /\ rowKeys[n] = pivot.rows[r].key
                                                        /\ columnKeys[n] = pivot.columns[c].key }
                        InCell(f) == \E n \in cell : facts[n] = f
                    IN  (\A n \in 1..Len(pivot.measures) :
                            pivot.measures[n].name = pivot.measures[m].name => n = m)
                        => pivot.measures[m].values[r][c]
                              = Accumulated(LastCube.measureMap[pivot.measures[m].name],
                                            SelectSeq(facts, InCell))

HeadersInOrder(pivot, facts) ==
    /\ InOrderMet(pivot.rows, facts, LastQuery.rows)
    /\ InOrderMet(pivot.columns, facts, LastQuery.columns)
    /\ CellsOfHeaders(pivot, facts, KeysMet(facts, LastQuery.rows),
                      KeysMet(facts, LastQuery.columns))

\* C25: in a raw-scan result the row headers and the column headers appear in
\* the order in which their coordinate combination (its key) is first met by a
\* fact that passes the filters, scanning the fact rows in registration order;
\* each combination appears exactly once, and matrix row r / column c belong to
\* the r-th / c-th header: the cell of a measure named once in the query is its
\* accumulator over the passing facts that have the keys of the two headers.
C25_HeadersInOrderFirstMet ==
    (Answered(last) /\ LastPlan.strategy = "raw-scan") => HeadersInOrder(LastPivot, PassingFacts)

\* A raw scan by year and region of a cube whose first fact is of year 2 and
\* region b and whose second is of year 1 and region a: the rows are 2 then 1,
\* the columns b then a.
C25_Witness ==
    /\ Answered(last) /\ LastPlan.strategy = "raw-scan"
    /\ Len(PassingFacts) = 2
    /\ LastQuery.rows = <<Axis("time", "year")>>
    /\ LastQuery.columns = <<Axis("geo", "region")>>
    /\ Len(LastPivot.rows) = 2
    /\ Len(LastPivot.columns) = 2
    /\ LastPivot.rows[1].coordinates[1].value = Num(2)
    /\ LastPivot.rows[2].coordinates[1].value = Num(1)
    /\ LastPivot.columns[1].coordinates[1].value = Str("b")
    /\ LastPivot.columns[2].coordinates[1].value = Str("a")

----------------------------------------------------------------------------
(* Properties of the counters *)

\* The step is a call of execute (directly or through the route) that returned
\* a result.
ReturnedResult ==
    /\ last'.seq # last.seq
    /\ last'.op \in {"execute", "postQuery"}
    /\ last'.status = 200

\* The step counts one hit and no miss, or one miss and no hit.
CountedHit == cacheStats' = [cacheStats EXCEPT !.hits = @ + 1]
CountedMiss == cacheStats' = [cacheStats EXCEPT !.misses = @ + 1]

----------------------------------------------------------------------------
(* Properties of the runs over all the cubes *)

\* The step is a run of the orchestrator.
RunStep == etlRun'.seq = etlRun.seq + 1

\* The run metadata of the run that are of the cube.
OfCube(r, cube) == { k \in 1..Len(r.metadata) : r.metadata[k].cube = cube }

\* C27: in an ETL run over several cubes, a cube is invalidated only if at
\* least one of that cube's own sources finished with status 'success' in this
\* run: every invalidation event the run raised is for a cube one of whose
\* run metadata is a success, so a cube all of whose sources failed raises no
\* event, whatever happened to the cubes processed before it.
C27_InvalidatedOnOwnSuccess ==
    [][RunStep =>
          \A e \in (Len(invalidations) + 1)..Len(invalidations') :
              \E k \in OfCube(etlRun', invalidations'[e].cube) :
                  etlRun'.metadata[k].status = "success"]_vars

\* The run metadata of the run that are of the source, and the first of them.
OfSource(r, source) == { k \in 1..Len(r.metadata) : r.metadata[k].source = source }
FirstOf(r, source) == CHOOSE k \in OfSource(r, source) : \A j \in OfSource(r, source) : k <= j

\* The stored watermark of the source is before the row, or there is none.
After(marks, source, row) ==
    \/ source \notin DOMAIN marks
    \/ "watermarkColumn" \notin DOMAIN SourceNamed(source)
    \/ LET rowDate == TimeOf(Field(row, SourceNamed(source).watermarkColumn))
       IN  ~rowDate.nan /\ rowDate.n > marks[source]

\* The stored watermark of a source changes only to the watermark of a batch
\* of the source that the run validated and loaded, and none is lost: a source
\* whose processing failed or threw keeps the watermark it had.
AdvancedOnlyByLoad ==
    /\ DOMAIN watermarks \subseteq DOMAIN watermarks'
    /\ \A source \in DOMAIN watermarks' :
          (source \notin DOMAIN watermarks \/ watermarks'[source] # watermarks[source]) =>
              \E k \in OfSource(etlRun', source) :
                  /\ etlRun'.metadata[k].status = "success"
                  /\ etlRun'.staged[k] # <<>>
                  /\ "watermark" \in DOMAIN etlRun'.metadata[k]
                  /\ etlRun'.metadata[k].watermark = watermarks'[source]

\* The rows of the batches that failed in the run before, that are still in the
\* file and after the stored watermark, are in the batch this run extracts
\* first from the source (when its connect and extract do not throw).
ExtractedAgain ==
    \A k \in 1..Len(etlRun.metadata) :
        LET source == etlRun.metadata[k].source IN
        (/\ etlRun.metadata[k].status = "failed"
         /\ faults[source] \notin {"connect", "extract"}
         /\ OfSource(etlRun', source) # {}) =>
            \A i \in 1..Len(etlRun.staged[k]) :
                (/\ \E j \in 1..Len(files[source]) : files[source][j] = etlRun.staged[k][i]
                 /\ After(watermarks, source, etlRun.staged[k][i]))
                => \E j \in 1..Len(etlRun'.staged[FirstOf(etlRun', source)]) :
                      etlRun'.staged[FirstOf(etlRun', source)][j] = etlRun.staged[k][i]

\* C28 as stated: a source's stored watermark is advanced only by a run in
\* which that source's batch was validated and loaded; when validation fails
\* or connect, extract or load throws, the watermark keeps its previous value,
\* and the rows of the failed batch are extracted again by the next run.
C28_FailedBatchIsExtractedByNextRun ==
    [][RunStep => (AdvancedOnlyByLoad /\ ExtractedAgain)]_vars

\* C28 amended: the same, the rows of the failed batch being extracted again
\* by the next run that is made without a since option (a since option
\* replaces the stored watermark in the extraction).
C28_FailedBatchIsExtractedWithoutSince ==
    [][RunStep => (AdvancedOnlyByLoad /\ (~etlRun'.since.defined => ExtractedAgain))]_vars

\* The second run, made without since, extracted the three sales of the file and
\* loaded them: the first run had loaded none of them and stored no watermark.
C28_Witness ==
    /\ etlRun.seq = 2 /\ ~etlRun.since.defined
    /\ etlRun.metadata[1].source = "sales_csv"
    /\ etlRun.metadata[1].status = "success"
    /\ etlRun.metadata[1].rowsProcessed = 3
    /\ Len(store.facts["fact_sales"]) = 3
    /\ watermarks["sales_csv"] = 3

\* C29: every connector the orchestrator connects while processing a source is
\* disconnected before processSource returns, on every path: no connector a
\* run made is left connected.
C29_ConnectorsAreDisconnected ==
    [][RunStep =>
          \A k \in 1..Len(etlRun'.connectors) : ~etlRun'.connectors[k].connected]_vars

----------------------------------------------------------------------------
(* Properties of the listeners *)

\* The step is a call of invalidate.
InvalidateStep == last'.seq # last.seq /\ last'.op = "invalidate"

\* A registered listener throws or returns a promise that rejects.
SomeListenerFails == \E i \in 1..Len(listeners) : listeners[i] \in {"throws", "rejects"}

\* The calls the step made to the listeners.
NewCalls == SubSeq(notified', Len(notified) + 1, Len(notified'))

\* C30: when invalidate notifies its listeners and one of them fails (throws
\* synchronously or returns a rejected promise), every listener, those
\* registered after it included, is called with the event, invalidate itself
\* does not fail, and the event is in the invalidation history.
C30_FailingListenerIsContained ==
    [][(InvalidateStep /\ SomeListenerFails) =>
          /\ Len(invalidations') = Len(invalidations) + 1
          /\ SubSeq(invalidations', 1, Len(invalidations)) = invalidations
          /\ invalidations'[Len(invalidations')].cube = last'.payload.cube
          /\ \A i \in 1..Len(listeners) :
                \E c \in 1..Len(NewCalls) :
                    /\ NewCalls[c].listener = i
                    /\ NewCalls[c].event = invalidations'[Len(invalidations')]
          /\ last'.status = 200]_vars

====
